---- MODULE Spec2Model ----
(***************************************************************************)
(* Network topology reconciliation of metadataserver/builtin_scripts/       *)
(* network.py: update_node_interfaces reconciles one commissioning snapshot *)
(* of a node against the persisted graph of interfaces, fabrics, VLANs,     *)
(* subnets and IP addresses.                                                *)
(*                                                                          *)
(* One reconciliation is one transaction.  Its loop over the interface      *)
(* names and its deletion loop are modelled one iteration per step, the     *)
(* position being kept in pc and cur; the steps of a transaction cannot be  *)
(* skipped or reordered, and no other transaction runs between them.        *)
(*                                                                          *)
(* SpecLocks is a second specification: two reconciliations at once, each   *)
(* modifying the records of its names in its processing order and holding   *)
(* every record it modified until it commits.                               *)
(***************************************************************************)
EXTENDS Integers, Sequences, FiniteSets, TLC

VARIABLES db, pc, cur, last, runs, txs, held

vars == <<db, pc, cur, last, runs, txs, held>>

\* the variables of one reconciliation at a time, and those of two at once
rvars == <<db, pc, cur, last, runs>>
lvars == <<txs, held>>

(***************************************************************************)
(* Bounds of the model.                                                     *)
(***************************************************************************)
\* number of freshly chosen snapshots reconciled in one behaviour
MaxRuns == 2
\* width of an IP address in bits (32 or 128 in the program)
AddrBits == 8

\* Python's None, a NULL column
Null == 0

(***************************************************************************)
(* Generic helpers.                                                         *)
(***************************************************************************)
Min(S) == CHOOSE x \in S : \A y \in S : x <= y

Range(s) == {s[i] : i \in 1..Len(s)}

RECURSIVE Pow2(_)
Pow2(k) == IF k <= 0 THEN 1 ELSE 2 * Pow2(k - 1)

\* the elements of the set S of integers, ascending: sorted(list(items))
RECURSIVE SortedIds(_)
SortedIds(S) == IF S = {} THEN <<>> ELSE <<Min(S)>> \o SortedIds(S \ {Min(S)})

RECURSIVE Reverse(_)
Reverse(s) == IF s = <<>> THEN <<>> ELSE Reverse(Tail(s)) \o <<Head(s)>>

RECURSIVE Flatten(_)
Flatten(ss) == IF ss = <<>> THEN <<>> ELSE Head(ss) \o Flatten(Tail(ss))

\* f without the key k
Drop(f, K) == [x \in DOMAIN f \ K |-> f[x]]

(***************************************************************************)
(* Names, hardware addresses, nodes.                                        *)
(***************************************************************************)
Names == {"bond0", "br0", "eth0", "eth0.10", "eth1"}

\* Python's order of str: position of the name in the lexicographic order
NameRank == [n \in Names |->
    CASE n = "bond0" -> 1 [] n = "br0" -> 2 [] n = "eth0" -> 3
      [] n = "eth0.10" -> 4 [] n = "eth1" -> 5]

SWITCH_OPENBMC_MAC == "02:00:00:00:00:02"

Nodes == {"n1", "n2"}

\* n1 is being commissioned, n2 is deployed
NodeInfo == [n \in Nodes |->
    IF n = "n1"
    THEN [status |-> "NEW", is_pod |-> FALSE, is_controller |-> FALSE]
    ELSE [status |-> "DEPLOYED", is_pod |-> FALSE, is_controller |-> FALSE]]

is_commissioning(node) ==
    /\ NodeInfo[node].status \notin {"DEPLOYED", "DEPLOYING"}
    /\ ~NodeInfo[node].is_pod
    /\ ~NodeInfo[node].is_controller

(***************************************************************************)
(* IP arithmetic: IPNetwork(address/netmask).cidr and membership.           *)
(***************************************************************************)
BlockSize(plen) == Pow2(AddrBits - plen)

\* str(IPNetwork(f"{address}/{netmask}").cidr): network address and prefix
CidrOf(address, plen) == <<address - (address % BlockSize(plen)), plen>>

\* IPAddress(gateway) in subnet.get_ipnetwork()
InCidr(address, cidr) ==
    /\ address >= cidr[1]
    /\ address < cidr[1] + BlockSize(cidr[2])

(***************************************************************************)
(* Dependency resolver.                                                     *)
(***************************************************************************)
\* the parents a snapshot entry declares
DeclaredParents(network) ==
    IF network.kind = "bridge" THEN network.parents
    ELSE IF network.kind = "bond" THEN network.parents
    ELSE IF network.kind = "vlan" THEN network.parents
    ELSE <<>>

\* a resolver that forgets the lower devices of a bond
dependencies_without_bonds(data) ==
    [name \in DOMAIN data.networks |->
        {p \in Range(DeclaredParents(data.networks[name])) :
            p \in DOMAIN data.networks /\ data.networks[name].kind # "bond"}]

get_interface_dependencies(data) ==
    [name \in DOMAIN data.networks |->
        {p \in Range(DeclaredParents(data.networks[name])) :
            p \in DOMAIN data.networks}]

\* sorttop: batches of things all of whose dependencies are in earlier
\* batches; ok is FALSE when a cycle leaves no batch to take
RECURSIVE sorttop(_)
sorttop(deps) ==
    IF DOMAIN deps = {} THEN [ok |-> TRUE, batches |-> <<>>]
    ELSE LET batch == {t \in DOMAIN deps : deps[t] = {}}
             rest == [t \in DOMAIN deps \ batch |-> deps[t] \ batch]
             more == sorttop(rest)
         IN IF batch = {} THEN [ok |-> FALSE, batches |-> <<>>]
            ELSE [ok |-> more.ok, batches |-> <<batch>> \o more.batches]

\* list(items): the batch in the iteration order iter of the mapping
RECURSIVE ListOf(_, _)
ListOf(items, iter) ==
    IF iter = <<>> THEN <<>>
    ELSE (IF Head(iter) \in items THEN <<Head(iter)>> ELSE <<>>)
         \o ListOf(items, Tail(iter))

\* sorted(...) of a list of names
RECURSIVE InsertName(_, _)
InsertName(x, s) ==
    IF s = <<>> THEN <<x>>
    ELSE IF NameRank[x] <= NameRank[Head(s)] THEN <<x>> \o s
    ELSE <<Head(s)>> \o InsertName(x, Tail(s))

RECURSIVE sorted(_)
sorted(s) == IF s = <<>> THEN <<>> ELSE InsertName(Head(s), sorted(Tail(s)))

\* an order that keeps each batch in the iteration order of the mapping
process_order_unsorted(data, iter) ==
    LET st == sorttop(get_interface_dependencies(data))
    IN [ok |-> st.ok,
        order |-> Flatten([i \in 1..Len(st.batches) |->
                              ListOf(st.batches[i], iter)])]

\* lines 98-99 and flatten: the order in which the names are processed
process_order(data, iter) ==
    LET st == sorttop(get_interface_dependencies(data))
    IN [ok |-> st.ok,
        order |-> Flatten([i \in 1..Len(st.batches) |->
                              sorted(ListOf(st.batches[i], iter))])]

(***************************************************************************)
(* The persisted graph.  db is a record:                                    *)
(*   ifaces   id -> [type, name, mac, enabled, node, vlan]                  *)
(*   parents  set of <<child id, parent id>>                                *)
(*   attach   set of <<interface id, address id>>                           *)
(*   fabrics  set of ids;  vlans  id -> [fabric, vid]                       *)
(*   subnets  id -> [cidr, vlan, gateway];  ips  id -> [ip, alloc, subnet]  *)
(*   nextid   the next primary key;  muts  the mutations of the running     *)
(*   transaction;  err  the exception that ended it ("" when none)          *)
(*   boot     node -> the id of its designated boot interface, or Null      *)
(***************************************************************************)
Mut(d, tag) == [d EXCEPT !.muts = @ \cup {tag}]

Raise(d, e) == IF d.err = "" THEN [d EXCEPT !.err = e] ELSE d

IfaceIds(d) == DOMAIN d.ifaces

\* interface.ip_addresses.all()
IpsOf(d, iface) == {a[2] : a \in {x \in d.attach : x[1] = iface}}

\* ip_address.interface_set.all()
IfacesOf(d, ip) == {a[1] : a \in {x \in d.attach : x[2] = ip}}

\* nic.parents.all()
ParentsOf(d, iface) == {r[2] : r \in {x \in d.parents : x[1] = iface}}

\* node.interface_set.all()
NodeIfaces(d, node) == {i \in IfaceIds(d) : d.ifaces[i].node = node}

\* Fabric.objects.create(): a fabric and its default (untagged) VLAN
FabricCreate(d) ==
    Mut([d EXCEPT !.fabrics = @ \cup {d.nextid},
                  !.vlans = @ @@ ((d.nextid + 1) :> [fabric |-> d.nextid, vid |-> 0]),
                  !.nextid = @ + 2],
        <<"create", "fabric">>)

\* fabric.get_default_vlan(): the first VLAN of the fabric
FabricDefaultVlan(d, fabric) ==
    Min({v \in DOMAIN d.vlans : d.vlans[v].fabric = fabric})

\* VLAN.objects.get_default_vlan(): the default VLAN of the first fabric
get_default_vlan(d) == FabricDefaultVlan(d, Min(d.fabrics))

\* a delete that only the default fabric refuses
FabricDelete_in_use(d, fabric) ==
    IF fabric = Min(d.fabrics) THEN Raise(d, "ValidationError")
    ELSE Mut([d EXCEPT !.fabrics = @ \ {fabric}], <<"delete", "fabric">>)

\* Fabric.delete(): refused for the default fabric and for a fabric one of
\* whose VLANs an interface or a subnet still references
FabricDelete(d, fabric) ==
    LET vl == {v \in DOMAIN d.vlans : d.vlans[v].fabric = fabric}
    IN IF \/ fabric = Min(d.fabrics)
          \/ \E i \in IfaceIds(d) : d.ifaces[i].vlan \in vl
          \/ \E s \in DOMAIN d.subnets : d.subnets[s].vlan \in vl
       THEN Raise(d, "ValidationError")
       ELSE Mut([d EXCEPT !.fabrics = @ \ {fabric}, !.vlans = Drop(@, vl)],
                <<"delete", "fabric">>)

\* VLAN.objects.get_or_create(fabric=fabric, vid=vid): the id it returns
VlanFind(d, fabric, vid) ==
    LET hit == {v \in DOMAIN d.vlans :
                    d.vlans[v].fabric = fabric /\ d.vlans[v].vid = vid}
    IN IF hit = {} THEN d.nextid ELSE Min(hit)

VlanGetOrCreate(d, fabric, vid) ==
    IF VlanFind(d, fabric, vid) \in DOMAIN d.vlans THEN d
    ELSE Mut([d EXCEPT !.vlans = @ @@ (d.nextid :> [fabric |-> fabric, vid |-> vid]),
                       !.nextid = @ + 1],
             <<"create", "vlan">>)

\* Subnet.objects.get_or_create(cidr=cidr, defaults={"vlan": vlan})
SubnetFind(d, cidr) ==
    LET hit == {s \in DOMAIN d.subnets : d.subnets[s].cidr = cidr}
    IN IF hit = {} THEN d.nextid ELSE Min(hit)

\* a lookup that binds the subnet it finds to the VLAN of the caller
SubnetGetOrCreate_rebinding(d, cidr, vlan) ==
    IF SubnetFind(d, cidr) \in DOMAIN d.subnets
    THEN IF d.subnets[SubnetFind(d, cidr)].vlan = vlan THEN d
         ELSE Mut([d EXCEPT !.subnets[SubnetFind(d, cidr)].vlan = vlan],
                  <<"update", "subnet">>)
    ELSE Mut([d EXCEPT !.subnets = @ @@ (d.nextid :>
                           [cidr |-> cidr, vlan |-> vlan, gateway |-> Null]),
                       !.nextid = @ + 1],
             <<"create", "subnet">>)

SubnetGetOrCreate(d, cidr, vlan) ==
    IF SubnetFind(d, cidr) \in DOMAIN d.subnets THEN d
    ELSE Mut([d EXCEPT !.subnets = @ @@ (d.nextid :>
                           [cidr |-> cidr, vlan |-> vlan, gateway |-> Null]),
                       !.nextid = @ + 1],
             <<"create", "subnet">>)

\* StaticIPAddress rows with the value ip
IpFind(d, ip) ==
    LET hit == {a \in DOMAIN d.ips : d.ips[a].ip = ip}
    IN IF hit = {} THEN d.nextid ELSE Min(hit)

IpCreate(d, ip, alloc, subnet) ==
    Mut([d EXCEPT !.ips = @ @@ (d.nextid :>
                      [ip |-> ip, alloc |-> alloc, subnet |-> subnet]),
                  !.nextid = @ + 1],
        <<"create", "ip">>)

\* ip_address.alloc_type = ...; ip_address.subnet = ...; ip_address.save()
IpUpdate(d, a, alloc, subnet) ==
    IF d.ips[a].alloc = alloc /\ d.ips[a].subnet = subnet THEN d
    ELSE Mut([d EXCEPT !.ips[a].alloc = alloc, !.ips[a].subnet = subnet],
             <<"update", "ip">>)

\* QuerySet.delete() of address rows: the rows and their attachments
IpsDelete(d, A) ==
    IF A = {} THEN d
    ELSE Mut([d EXCEPT !.ips = Drop(@, A),
                       !.attach = {x \in @ : x[2] \notin A}],
             <<"delete", "ip">>)

\* interface.ip_addresses.add(ip_address)
Attach(d, iface, a) ==
    IF <<iface, a>> \in d.attach THEN d
    ELSE Mut([d EXCEPT !.attach = @ \cup {<<iface, a>>}], <<"attach", "ip">>)

\* nic.ip_addresses.remove(ip_address) for every nic of I
Detach(d, I, a) ==
    IF {x \in d.attach : x[1] \in I /\ x[2] = a} = {} THEN d
    ELSE Mut([d EXCEPT !.attach = {x \in @ : ~(x[1] \in I /\ x[2] = a)}],
             <<"detach", "ip">>)

\* interface.unlink_ip_address(ip_address): the address is detached
unlink_ip_address(d, iface, a) == Detach(d, {iface}, a)

\* interface.save(): the in-memory object is written to its row
IfaceSave(d, ifc) ==
    IF ifc.id \in IfaceIds(d) /\ d.ifaces[ifc.id] = [x \in DOMAIN ifc \ {"id"} |-> ifc[x]]
    THEN d
    ELSE Mut([d EXCEPT !.ifaces =
                 (ifc.id :> [x \in DOMAIN ifc \ {"id"} |-> ifc[x]]) @@ @],
             <<"save", "interface">>)

\* the in-memory object of the row i
IfaceLoad(d, i) ==
    [id |-> i, type |-> d.ifaces[i].type, name |-> d.ifaces[i].name,
     mac |-> d.ifaces[i].mac, enabled |-> d.ifaces[i].enabled,
     node |-> d.ifaces[i].node, vlan |-> d.ifaces[i].vlan]

\* a new row; its id is the value of d.nextid before the call
IfaceCreate(d, type, name, mac, enabled, node, vlan) ==
    Mut([d EXCEPT !.ifaces = @ @@ (d.nextid :>
                      [type |-> type, name |-> name, mac |-> mac,
                       enabled |-> enabled, node |-> node, vlan |-> vlan]),
                  !.nextid = @ + 1],
        <<"create", "interface">>)

\* deleting interface rows: refused while an interface that stays has one
\* of them as a parent; else the rows, their parent links and attachments
\* a deletion that goes through whatever refers to the interfaces, and
\* leaves the references of the surviving children as they are
IfacesDelete_unprotected(d, I) ==
    IF I \cap IfaceIds(d) = {} THEN d
    ELSE Mut([d EXCEPT !.ifaces = Drop(@, I),
                       !.parents = {x \in @ : x[1] \notin I},
                       !.attach = {x \in @ : x[1] \notin I}],
             <<"delete", "interface">>)

IfacesDelete(d, I) ==
    IF I \cap IfaceIds(d) = {} THEN d
    ELSE IF \E x \in d.parents : x[2] \in I /\ x[1] \notin I
    THEN Raise(d, "ProtectedError")
    ELSE Mut([d EXCEPT !.ifaces = Drop(@, I),
                       !.parents = {x \in @ : x[1] \notin I},
                       !.attach = {x \in @ : x[1] \notin I}],
             <<"delete", "interface">>)

(***************************************************************************)
(* VLAN / fabric inference.                                                 *)
(***************************************************************************)
\* VLAN.objects.filter(subnet__cidr__in=cidrs).first(), Null when none
get_interface_vlan_from_links(d, links) ==
    LET cidrs == {CidrOf(links[k].address, links[k].netmask) : k \in 1..Len(links)}
        hit == {d.subnets[s].vlan : s \in {x \in DOMAIN d.subnets : d.subnets[x].cidr \in cidrs}}
    IN IF hit = {} THEN Null ELSE Min(hit)

\* a fallback that takes the default VLAN whoever is on it
guess_vlan_always_default(d, links) ==
    LET new_vlan == get_interface_vlan_from_links(d, links)
    IN IF new_vlan # Null THEN [d |-> d, vlan |-> new_vlan]
       ELSE [d |-> d, vlan |-> get_default_vlan(d)]

\* the result is [d, vlan]: the fallback may create a fabric
guess_vlan_for_interface(d, links) ==
    LET new_vlan == get_interface_vlan_from_links(d, links)
        default_vlan == get_default_vlan(d)
        interfaces_on_default_vlan ==
            Cardinality({i \in IfaceIds(d) : d.ifaces[i].vlan = default_vlan})
    IN IF new_vlan # Null THEN [d |-> d, vlan |-> new_vlan]
       ELSE IF interfaces_on_default_vlan = 0
            THEN [d |-> d, vlan |-> default_vlan]
            ELSE [d |-> FabricCreate(d), vlan |-> d.nextid + 1]

NoMac == ""

\* the id of the related interface, Null when there is none
find_related_interface(d, node, own_interface, related_ifname, related_mac) ==
    LET match(i) == /\ (related_mac # NoMac => d.ifaces[i].mac = related_mac)
                    /\ (own_interface => d.ifaces[i].node = node)
        phys == {i \in IfaceIds(d) : d.ifaces[i].type = "physical" /\ match(i)}
        brs == {i \in IfaceIds(d) : /\ d.ifaces[i].type = "bridge" /\ match(i)
                                    /\ d.ifaces[i].name = related_ifname}
    IN IF phys # {} THEN Min(phys)
       ELSE IF related_mac # NoMac /\ brs # {} THEN Min(brs)
       ELSE Null

\* the loop of guess_vlan_from_hints over the relevant hints; related is
\* the related_interface left by the hints before
RECURSIVE hints_loop(_, _, _, _)
hints_loop(d, node, hints, related) ==
    IF hints = <<>> THEN Null
    ELSE LET hint == Head(hints)
             related_interface ==
                 IF hint.hint \in {"on_remote_network", "routable_to"}
                    /\ hint.related_mac # NoMac
                 THEN find_related_interface(d, node, FALSE,
                                             hint.related_ifname, hint.related_mac)
                 ELSE IF hint.hint \in {"rx_own_beacon_on_other_interface",
                                        "same_local_fabric_as"}
                 THEN find_related_interface(d, node, TRUE,
                                             hint.related_ifname, NoMac)
                 ELSE related
         IN IF related_interface # Null /\ d.ifaces[related_interface].vlan # Null
            THEN d.ifaces[related_interface].vlan
            ELSE hints_loop(d, node, Tail(hints), related_interface)

guess_vlan_from_hints(d, node, ifname, hints) ==
    LET relevant_hints == SelectSeq(hints, LAMBDA hint :
            /\ hint.ifname = ifname
            /\ hint.vid = Null
            /\ hint.related_vid = Null)
    IN hints_loop(d, node, relevant_hints, Null)

\* iter is the iteration order of the set ip_addresses
guess_best_vlan_from_ip_addresses(d, ip_addresses, iter) ==
    LET s == IF iter = "asc" THEN SortedIds(ip_addresses)
             ELSE Reverse(SortedIds(ip_addresses))
        sticky == {k \in 1..Len(s) : d.ips[s[k]].alloc = "STICKY"}
        discovered == {k \in 1..Len(s) : d.ips[s[k]].alloc = "DISCOVERED"}
    IN IF sticky # {} THEN d.subnets[d.ips[s[Min(sticky)]].subnet].vlan
       ELSE IF discovered # {}
            THEN d.subnets[d.ips[s[CHOOSE k \in discovered :
                                      \A j \in discovered : j <= k]].subnet].vlan
            ELSE Null

(***************************************************************************)
(* IP address reconciler: update_links.  The loop state is                  *)
(*   st = [d, ifc, current, updated, vlan]                                  *)
(* with ifc the in-memory interface object, current the list                *)
(* current_ip_addresses, updated the set updated_ip_addresses.              *)
(***************************************************************************)
\* a link with mode dhcp, lines 570-623
link_dhcp(st, node, link, force_vlan) ==
    LET dhcps == {a \in st.current : st.d.ips[a].alloc = "DHCP"}
        dhcp_address == IF dhcps = {} THEN st.d.nextid ELSE Min(dhcps)
        d1 == IF dhcps = {}
              THEN Attach(IpCreate(st.d, Null, "DHCP", Null), st.ifc.id, dhcp_address)
              ELSE st.d
        current1 == st.current \ {dhcp_address}
        cidr == CidrOf(link.address, link.netmask)
        subnet == SubnetFind(d1, cidr)
        d2 == SubnetGetOrCreate(d1, cidr, st.vlan)
        ip_address == IpFind(d2, link.address)
        d3 == IF ip_address \in DOMAIN d2.ips
              THEN IpUpdate(d2, ip_address, "DISCOVERED", subnet)
              ELSE IpCreate(d2, link.address, "DISCOVERED", subnet)
        d4 == Attach(d3, st.ifc.id, ip_address)
    IN IF force_vlan /\ d2.subnets[subnet].vlan # st.ifc.vlan
       THEN [st EXCEPT !.d = d2, !.current = current1]
       ELSE [st EXCEPT !.d = d4, !.current = current1,
                       !.updated = @ \cup {dhcp_address}]

\* an attachment that leaves the address on the interfaces of other nodes
static_attach_shared(st, node, ip_address, address_type, subnet) ==
    [st EXCEPT !.d = Attach(IpUpdate(st.d, ip_address, address_type, subnet),
                            st.ifc.id, ip_address),
               !.current = @ \ {ip_address},
               !.updated = @ \cup {ip_address}]

\* lines 687-699: the address leaves the interfaces of other nodes and is
\* linked to this one
static_attach(st, node, ip_address, address_type, subnet) ==
    LET d4 == Detach(st.d, {i \in IfacesOf(st.d, ip_address) :
                               st.d.ifaces[i].node # node}, ip_address)
        d5 == IpUpdate(d4, ip_address, address_type, subnet)
    IN [st EXCEPT !.d = Attach(d5, st.ifc.id, ip_address),
                  !.current = @ \ {ip_address},
                  !.updated = @ \cup {ip_address}]

\* lines 662-686: the address of the link, among the current ones or in the
\* whole table, created when missing
static_address(st, node, link, subnet) ==
    LET mine == {a \in st.current : st.d.ips[a].ip = link.address}
        address_type == IF is_commissioning(node) THEN "DISCOVERED" ELSE "STICKY"
        ip_address == IF mine # {} THEN Min(mine) ELSE IpFind(st.d, link.address)
        d3 == IF mine # {} THEN st.d
              ELSE IF ip_address \in DOMAIN st.d.ips
                   THEN IpUpdate(st.d, ip_address, address_type, subnet)
                   ELSE IpCreate(st.d, link.address, address_type, subnet)
    IN static_attach([st EXCEPT !.d = d3], node, ip_address, address_type, subnet)

\* a fixed link whose address is attached whatever the VLAN of its subnet
link_static_any_vlan(st, node, link, force_vlan) ==
    LET cidr == CidrOf(link.address, link.netmask)
        subnet == SubnetFind(st.d, cidr)
        d1 == SubnetGetOrCreate(st.d, cidr, st.vlan)
    IN static_address([st EXCEPT !.d = d1], node, link, subnet)

\* a fixed link whose gateway replaces the gateway of the subnet
link_static_sets_gateway(st, node, link, force_vlan) ==
    LET cidr == CidrOf(link.address, link.netmask)
        subnet == SubnetFind(st.d, cidr)
        d1 == SubnetGetOrCreate(st.d, cidr, st.vlan)
        d2 == IF /\ link.gateway # Null
                 /\ d1.subnets[subnet].gateway # link.gateway
                 /\ InCidr(link.gateway, d1.subnets[subnet].cidr)
              THEN Mut([d1 EXCEPT !.subnets[subnet].gateway = link.gateway],
                       <<"update", "subnet">>)
              ELSE d1
    IN IF force_vlan /\ d1.subnets[subnet].vlan # st.ifc.vlan
       THEN [st EXCEPT !.d = d1]
       ELSE static_address([st EXCEPT !.d = d2], node, link, subnet)

\* a fixed link, lines 625-699
link_static(st, node, link, force_vlan) ==
    LET cidr == CidrOf(link.address, link.netmask)
        subnet == SubnetFind(st.d, cidr)
        d1 == SubnetGetOrCreate(st.d, cidr, st.vlan)
        d2 == IF /\ d1.subnets[subnet].gateway = Null
                 /\ link.gateway # Null
                 /\ InCidr(link.gateway, d1.subnets[subnet].cidr)
              THEN Mut([d1 EXCEPT !.subnets[subnet].gateway = link.gateway],
                       <<"update", "subnet">>)
              ELSE d1
    IN IF force_vlan /\ d1.subnets[subnet].vlan # st.ifc.vlan
       THEN [st EXCEPT !.d = d1]
       ELSE static_address([st EXCEPT !.d = d2], node, link, subnet)

\* an address that IPNetwork cannot parse
Malformed == -1

\* lines 582 and 625: IPNetwork raises on a malformed address, and nothing
\* catches it
RECURSIVE links_loop(_, _, _, _)
links_loop(st, node, links, force_vlan) ==
    IF links = <<>> THEN st
    ELSE IF Head(links).address = Malformed
    THEN [st EXCEPT !.d = Raise(@, "AddrFormatError")]
    ELSE links_loop(IF Head(links).mode = "dhcp"
                    THEN link_dhcp(st, node, Head(links), force_vlan)
                    ELSE link_static(st, node, Head(links), force_vlan),
                    node, Tail(links), force_vlan)

RECURSIVE unlink_loop(_, _, _)
unlink_loop(d, iface, current) ==
    IF current = {} THEN d
    ELSE unlink_loop(unlink_ip_address(d, iface, Min(current)), iface,
                     current \ {Min(current)})

\* an end of update_links that unlinks nothing
links_end_keeps_all(st) ==
    [d |-> st.d, ifc |-> st.ifc, updated |-> st.updated]

\* lines 701-706: the addresses the loop left in current are unlinked
links_end(st) ==
    [d |-> unlink_loop(st.d, st.ifc.id, st.current), ifc |-> st.ifc,
     updated |-> st.updated]

\* an update that leaves the DISCOVERED addresses of earlier runs attached
update_links_keeps_discovered(d, node, ifc, links, force_vlan, use_interface_vlan) ==
    LET current_ip_addresses == {a \in IpsOf(d, ifc.id) : d.ips[a].alloc # "DISCOVERED"}
        keep == use_interface_vlan /\ ifc.vlan # Null
        fresh == ~keep /\ links # <<>>
        d2 == IF fresh THEN FabricCreate(d) ELSE d
        vlan == IF keep THEN ifc.vlan ELSE IF fresh THEN d.nextid + 1 ELSE Null
        ifc2 == IF fresh THEN [ifc EXCEPT !.vlan = vlan] ELSE ifc
        d3 == IF fresh THEN IfaceSave(d2, ifc2) ELSE d2
    IN links_end(links_loop([d |-> d3, ifc |-> ifc2,
                             current |-> current_ip_addresses,
                             updated |-> {}, vlan |-> vlan],
                            node, links, force_vlan))

\* the result is [d, ifc, updated]
update_links(d, node, ifc, links, force_vlan, use_interface_vlan) ==
    LET d1 == IpsDelete(d, {a \in IpsOf(d, ifc.id) : d.ips[a].alloc = "DISCOVERED"})
        current_ip_addresses == IpsOf(d1, ifc.id)
        keep == use_interface_vlan /\ ifc.vlan # Null
        fresh == ~keep /\ links # <<>>
        d2 == IF fresh THEN FabricCreate(d1) ELSE d1
        vlan == IF keep THEN ifc.vlan ELSE IF fresh THEN d1.nextid + 1 ELSE Null
        ifc2 == IF fresh THEN [ifc EXCEPT !.vlan = vlan] ELSE ifc
        d3 == IF fresh THEN IfaceSave(d2, ifc2) ELSE d2
    IN links_end(links_loop([d |-> d3, ifc |-> ifc2,
                             current |-> current_ip_addresses,
                             updated |-> {}, vlan |-> vlan],
                            node, links, force_vlan))

(***************************************************************************)
(* Interface reconciler.  Each update_* returns [d, iface]: the graph and   *)
(* the id of the interface it returns (Null for None).                      *)
(***************************************************************************)
\* what an update_* returns: the graph, the interface, and for a physical
\* interface how its VLAN was guessed (via) with the VLANs the hints and the
\* links gave at that moment
Ret(d, iface) ==
    [d |-> d, iface |-> iface, via |-> "none", new_vlan |-> Null,
     hint_vlan |-> Null, link_vlan |-> Null]

\* lines 271-278: ul is what update_links returned
physical_links_vlan(ul, new_vlan, iter) ==
    LET linked_vlan == guess_best_vlan_from_ip_addresses(ul.d, ul.updated, iter)
    IN IF linked_vlan = Null THEN [d |-> ul.d, ifc |-> ul.ifc]
       ELSE [d |-> IF new_vlan # Null /\ linked_vlan # new_vlan
                   THEN FabricDelete(ul.d, ul.d.vlans[new_vlan].fabric)
                   ELSE ul.d,
             ifc |-> [ul.ifc EXCEPT !.vlan = linked_vlan]]

\* the result is [d, ifc]
update_physical_links(d, node, ifc, links, new_vlan, iter) ==
    physical_links_vlan(update_links(d, node, ifc, links, FALSE, TRUE), new_vlan, iter)

\* get_card_port: port is [present, address, link_detected]
get_card_port(name, data) ==
    IF name \in DOMAIN data.ports
    THEN [present |-> TRUE, address |-> data.ports[name].address,
          link_detected |-> data.ports[name].link_detected]
    ELSE [present |-> FALSE, address |-> NoMac, link_detected |-> FALSE]

\* hints is [present, hints]: topology_hints, None without network-extra
data_has_hints(hints) == hints.present

RECURSIVE update_physical_interface(_, _, _, _, _, _, _, _)

\* lines 264-266: pl is what update_physical_links returned, g the guess
physical_end(pl, g, id) ==
    [d |-> IfaceSave(pl.d, pl.ifc), iface |-> id, via |-> g.via,
     new_vlan |-> g.new_vlan, hint_vlan |-> g.hint_vlan, link_vlan |-> g.link_vlan]

\* lines 247-266: the fields of the interface, its links and the save
physical_save(g, node, name, interface, created, is_enabled, links, iter) ==
    physical_end(
        update_physical_links(
            g.d, node,
            [interface EXCEPT !.vlan = IF g.new_vlan # Null THEN g.new_vlan ELSE @,
                              !.name = IF created THEN @ ELSE name,
                              !.enabled = is_enabled],
            links, g.new_vlan, iter),
        g, interface.id)

\* what the guess gave: the graph, the VLAN, and how it was found
guessed(gv, hinted, link_vlan, default_vlan) ==
    [d |-> gv.d, new_vlan |-> gv.vlan, hint_vlan |-> hinted, link_vlan |-> link_vlan,
     via |-> IF hinted # Null THEN "hint"
             ELSE IF link_vlan # Null THEN "link"
             ELSE IF gv.vlan = default_vlan THEN "default"
             ELSE "fabric"]

\* lines 243-246: the VLAN of the hints, or else the guess from the links
guess_unless_hinted(d, hinted, links) ==
    guessed(IF hinted = Null THEN guess_vlan_for_interface(d, links)
            ELSE [d |-> d, vlan |-> hinted],
            hinted, get_interface_vlan_from_links(d, links), get_default_vlan(d))

\* lines 236-246: a VLAN is guessed for an enabled interface without one
physical_vlan(d, node, name, interface, is_enabled, links, hints) ==
    IF interface.vlan = Null /\ is_enabled
    THEN guess_unless_hinted(
             d,
             IF data_has_hints(hints)
             THEN guess_vlan_from_hints(d, node, name, hints.hints)
             ELSE Null,
             links)
    ELSE [d |-> d, new_vlan |-> Null, hint_vlan |-> Null, link_vlan |-> Null,
          via |-> "none"]

\* lines 236-266, for the interface id of the node
physical_known(d, id, created, node, name, is_enabled, links, hints, iter) ==
    physical_save(
        physical_vlan(d, node, name, IfaceLoad(d, id), is_enabled, links, hints),
        node, name, IfaceLoad(d, id), created, is_enabled, links, iter)

\* lines 232-235: the record of the other node is deleted, and the call made
\* again
physical_again(d, node, name, network, links, port, hints, iter) ==
    IF d.err # "" THEN Ret(d, Null)
    ELSE update_physical_interface(d, node, name, network, links, port, hints, iter)

\* a lookup of the MAC address among the interfaces of the node alone
physical_get_or_create_on_node(d, node, name, mac_address, is_enabled, network, links, port, hints, iter) ==
    LET hit == {i \in NodeIfaces(d, node) : d.ifaces[i].type = "physical"
                                            /\ d.ifaces[i].mac = mac_address}
    IN IF d.err # "" THEN Ret(d, Null)
       ELSE IF hit = {}
       THEN physical_known(
                IfaceCreate(d, "physical", name, mac_address, is_enabled, node, Null),
                d.nextid, TRUE, node, name, is_enabled, links, hints, iter)
       ELSE physical_known(d, Min(hit), FALSE, node, name, is_enabled, links,
                           hints, iter)

\* lines 217-235: the interface with the MAC address, created when missing
physical_get_or_create(d, node, name, mac_address, is_enabled, network, links, port, hints, iter) ==
    LET hit == {i \in IfaceIds(d) : d.ifaces[i].type = "physical"
                                    /\ d.ifaces[i].mac = mac_address}
    IN IF d.err # "" THEN Ret(d, Null)
       ELSE IF Cardinality(hit) > 1
       THEN Ret(Raise(d, "MultipleObjectsReturned"), Null)
       ELSE IF hit = {}
       THEN physical_known(
                IfaceCreate(d, "physical", name, mac_address, is_enabled, node, Null),
                d.nextid, TRUE, node, name, is_enabled, links, hints, iter)
       ELSE IF d.ifaces[Min(hit)].node # node
       THEN physical_again(IfacesDelete(d, hit), node, name, network, links,
                           port, hints, iter)
       ELSE physical_known(d, Min(hit), FALSE, node, name, is_enabled, links,
                           hints, iter)

update_physical_interface(d, node, name, network, links, port, hints, iter) ==
    LET mac_address == IF port.present THEN port.address ELSE network.hwaddr
        is_enabled == IF port.present
                      THEN network.state = "up" /\ port.link_detected
                      ELSE network.state = "up"
    IN \* lines 214-216
       physical_get_or_create(
           IfacesDelete(d, {i \in IfaceIds(d) :
               /\ d.ifaces[i].type = "physical"
               /\ d.ifaces[i].node = node
               /\ d.ifaces[i].name = name
               /\ d.ifaces[i].mac # mac_address}),
           node, name, mac_address, is_enabled, network, links, port, hints, iter)

\* VLANInterface.objects.get_or_create(node, name, parents=[parent], vlan):
\* the interface of that node, name, parent and VLAN, created when missing
VlanIfaceGetOrCreate(d, node, name, parent_nic, vlan) ==
    LET hit == {i \in NodeIfaces(d, node) :
                   /\ d.ifaces[i].type = "vlan" /\ d.ifaces[i].name = name
                   /\ parent_nic \in ParentsOf(d, i) /\ d.ifaces[i].vlan = vlan}
        d1 == IfaceCreate(d, "vlan", name, d.ifaces[parent_nic].mac, TRUE, node, vlan)
    IN IF hit # {} THEN [d |-> d, iface |-> Min(hit)]
       ELSE [d |-> [d1 EXCEPT !.parents = @ \cup {<<d.nextid, parent_nic>>}],
             iface |-> d.nextid]

\* the links of the interface found or created, on the VLAN it has
vlan_links_as_found(goc, node, vlan, links) ==
    Ret(update_links(goc.d, node, IfaceLoad(goc.d, goc.iface), links, TRUE, TRUE).d,
        goc.iface)

\* lines 365-370: goc is the interface found or created
vlan_links(goc, node, vlan, links) ==
    LET interface == [IfaceLoad(goc.d, goc.iface) EXCEPT !.vlan = vlan]
    IN Ret(update_links(IfaceSave(goc.d, interface), node, interface, links,
                        TRUE, TRUE).d,
           goc.iface)

update_vlan_interface(d, node, name, network, links) ==
    LET vid == network.vid
        parent_name == network.parents[1]
        found == {i \in NodeIfaces(d, node) : d.ifaces[i].name = parent_name}
    IN IF found = {} THEN Ret(Raise(d, "DoesNotExist"), Null)
       ELSE IF Cardinality(found) > 1
       THEN Ret(Raise(d, "MultipleObjectsReturned"), Null)
       ELSE IF d.ifaces[Min(found)].vlan = Null
       THEN \* parent_nic.vlan.fabric_id / parent_nic.vlan.fabric of None
            Ret(Raise(d, "AttributeError"), Null)
       ELSE
       LET parent_nic == Min(found)
           links_vlan == get_interface_vlan_from_links(d, links)
           fabric == d.vlans[d.ifaces[parent_nic].vlan].fabric
           vlan == IF links_vlan # Null THEN links_vlan ELSE VlanFind(d, fabric, vid)
           d1 == IF links_vlan # Null THEN d ELSE VlanGetOrCreate(d, fabric, vid)
           \* lines 354-356
           hit == {i \in NodeIfaces(d1, node) :
                      /\ d1.ifaces[i].type = "vlan" /\ d1.ifaces[i].name = name
                      /\ parent_nic \in ParentsOf(d1, i)
                      /\ d1.ifaces[i].vlan # Null
                      /\ d1.vlans[d1.ifaces[i].vlan].vid = vid}
       IN vlan_links(IF hit = {}
                     THEN VlanIfaceGetOrCreate(d1, node, name, parent_nic, vlan)
                     ELSE [d |-> d1, iface |-> Min(hit)],
                     node, vlan, links)

\* Interface.objects.get_interfaces_on_node_by_name(node, names): the
\* interfaces of the node with one of the names, as a list
get_interfaces_on_node_by_name(d, node, names) ==
    SortedIds({i \in NodeIfaces(d, node) : d.ifaces[i].name \in Range(names)})

\* child_type.objects.get_or_create_on_node(node, name, mac, parent_nics):
\* the interface of that kind, node, name and parent set, created when missing
get_or_create_on_node(d, node, child_type, name, mac_address, parent_nics) ==
    LET hit == {i \in NodeIfaces(d, node) :
                   /\ d.ifaces[i].type = child_type /\ d.ifaces[i].name = name
                   /\ ParentsOf(d, i) = Range(parent_nics)}
        d1 == IfaceCreate(d, child_type, name, mac_address, TRUE, node, Null)
    IN IF hit # {} THEN [d |-> d, iface |-> Min(hit)]
       ELSE [d |-> [d1 EXCEPT !.parents =
                        @ \cup {<<d.nextid, p>> : p \in Range(parent_nics)}],
             iface |-> d.nextid]

\* the result is [d, ifc, found]
configure_vlan_from_links(d, ifc, parent_nics, links) ==
    LET vlan == get_interface_vlan_from_links(d, links)
        ifc1 == IF vlan = Null /\ parent_nics # <<>>
                THEN [ifc EXCEPT !.vlan = d.ifaces[parent_nics[1]].vlan]
                ELSE IF vlan # Null THEN [ifc EXCEPT !.vlan = vlan]
                ELSE ifc
        found == (vlan = Null /\ parent_nics # <<>>) \/ vlan # Null
    IN [d |-> IF found THEN IfaceSave(d, ifc1) ELSE d, ifc |-> ifc1, found |-> found]

\* a loop that leaves every parent on the VLAN it has
parents_loop_skipped(d, parent_nics, linked_vlan) == d

RECURSIVE parents_loop(_, _, _)
parents_loop(d, parent_nics, linked_vlan) ==
    IF parent_nics = <<>> THEN d
    ELSE parents_loop(
             IF d.ifaces[Head(parent_nics)].vlan # linked_vlan
             THEN IfaceSave(d, [IfaceLoad(d, Head(parent_nics)) EXCEPT !.vlan = linked_vlan])
             ELSE d,
             Tail(parent_nics), linked_vlan)

update_parent_vlans(d, ifc, parent_nics, update_ip_addresses, iter) ==
    LET linked_vlan == guess_best_vlan_from_ip_addresses(d, update_ip_addresses, iter)
    IN IF linked_vlan = Null THEN d
       ELSE parents_loop(IfaceSave(d, [ifc EXCEPT !.vlan = linked_vlan]),
                         parent_nics, linked_vlan)

\* lines 417-418: ul is what update_links returned
child_end(ul, parent_nics, iface, iter) ==
    Ret(update_parent_vlans(ul.d, ul.ifc, parent_nics, ul.updated, iter), iface)

\* lines 410-415: cv is what configure_vlan_from_links returned
child_links(cv, node, parent_nics, links, iter) ==
    child_end(update_links(cv.d, node, cv.ifc, links, FALSE, cv.found),
              parent_nics, cv.ifc.id, iter)

\* line 408: goc is the interface found or created
child_vlan(goc, node, parent_nics, links, iter) ==
    child_links(configure_vlan_from_links(goc.d, IfaceLoad(goc.d, goc.iface),
                                          parent_nics, links),
                node, parent_nics, links, iter)

\* a child that is created whether it has parents or not
child_of_parentless(d, node, name, network, parent_nics, links, iter) ==
    child_vlan(get_or_create_on_node(
                   d, node, IF network.kind = "bridge" THEN "bridge" ELSE "bond",
                   name, network.hwaddr, parent_nics),
               node, parent_nics, links, iter)

\* lines 393-406: parent_nics are the parents of the interface on the node
child_of(d, node, name, network, parent_nics, links, iter) ==
    IF parent_nics = <<>> /\ network.kind # "bridge"
    THEN Ret(d, Null)
    ELSE child_vlan(get_or_create_on_node(
                        d, node, IF network.kind = "bridge" THEN "bridge" ELSE "bond",
                        name, network.hwaddr, parent_nics),
                    node, parent_nics, links, iter)

update_child_interface(d, node, name, network, links, iter) ==
    child_of(d, node, name, network,
             get_interfaces_on_node_by_name(d, node, network.parents), links, iter)

update_interface(d, node, name, data, iter) ==
    LET network == data.networks[name]
        links == SelectSeq(network.addresses, LAMBDA a : a.scope = "global")
    IN IF network.type # "broadcast" THEN Ret(d, Null)
       ELSE IF network.hwaddr = SWITCH_OPENBMC_MAC THEN Ret(d, Null)
       ELSE IF network.kind = "vlan"
            THEN update_vlan_interface(d, node, name, network, links)
       ELSE IF network.kind \in {"bond", "bridge"}
            THEN update_child_interface(d, node, name, network, links, iter)
       ELSE update_physical_interface(d, node, name, network, links,
                                      get_card_port(name, data), data.hints, iter)

(***************************************************************************)
(* Snapshots: the commissioning data the model draws its inputs from.       *)
(*   data = [networks, ports, hints]                                        *)
(*   networks[name] = [type, hwaddr, state, addresses, kind, parents, vid]  *)
(*   an address = [address, netmask, scope, mode, gateway]                  *)
(* kind and parents stand for the bridge / bond / vlan keys of the entry,   *)
(* ports for resources.network.cards[].ports[], hints for network-extra.    *)
(* The mode and gateway of network-extra's interfaces are held by the       *)
(* address itself, and no address has a /32 netmask.                        *)
(***************************************************************************)
Fixed(address, gateway) ==
    [address |-> address, netmask |-> 4, scope |-> "global", mode |-> "static",
     gateway |-> gateway]

Dhcp(address) ==
    [address |-> address, netmask |-> 4, scope |-> "global", mode |-> "dhcp",
     gateway |-> Null]

\* 17, 18 and 30 lie in the network 16/4; 33 and 34 in 32/4; 100 in neither
sA == Fixed(17, 30)
sA2 == Fixed(18, Null)
sB == Fixed(33, 100)
dA == Dhcp(17)
dB == Dhcp(34)

Phys(hwaddr, state, addresses) ==
    [type |-> "broadcast", hwaddr |-> hwaddr, state |-> state,
     addresses |-> addresses, kind |-> "physical", parents |-> <<>>, vid |-> Null]

Child(kind, hwaddr, parents, addresses) ==
    [type |-> "broadcast", hwaddr |-> hwaddr, state |-> "up",
     addresses |-> addresses, kind |-> kind, parents |-> parents, vid |-> Null]

Vlan(hwaddr, vid, lower_device, addresses) ==
    [type |-> "broadcast", hwaddr |-> hwaddr, state |-> "up",
     addresses |-> addresses, kind |-> "vlan", parents |-> <<lower_device>>,
     vid |-> vid]

Hint(ifname, hint, related_ifname, related_mac) ==
    [ifname |-> ifname, hint |-> hint, vid |-> Null, related_vid |-> Null,
     related_ifname |-> related_ifname, related_mac |-> related_mac]

NoNet == [x \in {} |-> Null]

\* the physical part of a snapshot
PhysParts ==
    {NoNet}
    \cup {"eth0" :> Phys("m1", st, a) :
            st \in {"up", "down"}, a \in {<<>>, <<sA>>, <<sB>>, <<dA>>, <<sA, sB>>}}
    \cup {"eth0" :> Phys("m2", "up", a) : a \in {<<>>, <<sA>>}}
    \cup {("eth0" :> Phys("m1", st, a)) @@ ("eth1" :> Phys("m2", "up", b)) :
            st \in {"up", "down"}, a \in {<<>>, <<sA>>}, b \in {<<>>, <<sB>>}}
    \cup {("eth0" :> Phys("m2", "up", <<>>)) @@ ("eth1" :> Phys("m1", "up", <<>>)),
          ("eth0" :> Phys("m1", "up", <<>>)) @@ ("eth1" :> Phys("m1", "up", <<>>))}

\* the bond, bridge and VLAN part of a snapshot
VirtParts ==
    {NoNet,
     "bond0" :> Child("bond", "m1", <<"eth0", "eth1">>, <<>>),
     "bond0" :> Child("bond", "m1", <<"eth0", "eth1">>, <<sB>>),
     "br0" :> Child("bridge", "m3", <<>>, <<sA2>>),
     "eth0.10" :> Vlan("m1", 10, "eth0", <<>>),
     "eth0.10" :> Vlan("m1", 10, "eth0", <<sB>>),
     ("bond0" :> Child("bond", "m1", <<"br0">>, <<>>))
        @@ ("br0" :> Child("bridge", "m1", <<"bond0">>, <<>>))}

NoHints == [present |-> FALSE, hints |-> <<>>]

HintParts ==
    {[present |-> TRUE,
      hints |-> <<Hint("eth0", "on_remote_network", "eth1", "m2")>>],
     [present |-> TRUE,
      hints |-> <<Hint("eth0", "same_local_fabric_as", "eth1", NoMac)>>]}

NoPorts == [x \in {} |-> Null]

PortParts ==
    {"eth0" :> [address |-> "m1", link_detected |-> FALSE],
     "eth0" :> [address |-> "m2", link_detected |-> TRUE]}

\* the snapshots with hints or port details have one enabled eth0
Snapshots ==
    {[networks |-> p @@ v, ports |-> NoPorts, hints |-> NoHints] :
        p \in PhysParts, v \in VirtParts}
    \cup {[networks |-> "eth0" :> Phys("m1", "up", a), ports |-> NoPorts, hints |-> h] :
            a \in {<<>>, <<sA>>, <<sB>>}, h \in HintParts}
    \cup {[networks |-> "eth0" :> Phys("m1", "up", a), ports |-> q, hints |-> NoHints] :
            a \in {<<>>, <<sA>>}, q \in PortParts}
    \cup {[networks |-> "eth0" :> [Phys("m1", "up", <<sA>>) EXCEPT !.type = "loopback"],
           ports |-> NoPorts, hints |-> NoHints],
          [networks |-> "eth0" :> Phys(SWITCH_OPENBMC_MAC, "up", <<sA>>),
           ports |-> NoPorts, hints |-> NoHints],
          \* a VLAN interface with links in two subnets
          [networks |-> ("eth0" :> Phys("m1", "up", <<>>))
                        @@ ("eth0.10" :> Vlan("m1", 10, "eth0", <<sA, sB>>)),
           ports |-> NoPorts, hints |-> NoHints],
          \* a bond whose lower device is no name of the snapshot
          [networks |-> ("eth0" :> Phys("m1", "up", <<>>))
                        @@ ("eth1" :> Phys("m2", "up", <<>>))
                        @@ ("bond0" :> Child("bond", "m1", <<"br0">>, <<>>)),
           ports |-> NoPorts, hints |-> NoHints],
          \* a bond with a link in a subnet that is not known at first
          [networks |-> ("eth0" :> Phys("m1", "up", <<>>))
                        @@ ("eth1" :> Phys("m2", "up", <<>>))
                        @@ ("bond0" :> Child("bond", "m1", <<"eth0", "eth1">>, <<sA>>)),
           ports |-> NoPorts, hints |-> NoHints],
          [networks |-> ("eth0" :> Phys("m1", "down", <<>>))
                        @@ ("eth1" :> Phys("m2", "up", <<>>))
                        @@ ("bond0" :> Child("bond", "m1", <<"eth0", "eth1">>, <<sA>>)),
           ports |-> NoPorts, hints |-> NoHints],
          \* a bond with links in two subnets, in either order
          [networks |-> ("eth0" :> Phys("m1", "up", <<>>))
                        @@ ("eth1" :> Phys("m2", "up", <<>>))
                        @@ ("bond0" :> Child("bond", "m1", <<"eth0", "eth1">>, <<sA, sB>>)),
           ports |-> NoPorts, hints |-> NoHints],
          [networks |-> ("eth0" :> Phys("m1", "up", <<>>))
                        @@ ("eth1" :> Phys("m2", "up", <<>>))
                        @@ ("bond0" :> Child("bond", "m1", <<"eth0", "eth1">>, <<sB, sA>>)),
           ports |-> NoPorts, hints |-> NoHints],
          \* an interface with two dynamic links
          [networks |-> "eth0" :> Phys("m1", "up", <<dA, dB>>),
           ports |-> NoPorts, hints |-> NoHints],
          \* a VLAN interface with a link in another subnet between two
          \* links in one subnet
          [networks |-> ("eth0" :> Phys("m1", "up", <<>>))
                        @@ ("eth0.10" :> Vlan("m1", 10, "eth0", <<sA, sB, sA2>>)),
           ports |-> NoPorts, hints |-> NoHints],
          \* a link with another gateway of the network 16/4
          [networks |-> "eth0" :> Phys("m1", "up", <<Fixed(18, 29)>>),
           ports |-> NoPorts, hints |-> NoHints],
          \* a malformed link before a well-formed one
          [networks |-> ("eth0" :> Phys("m1", "up", <<Fixed(Malformed, Null), sA>>))
                        @@ ("eth1" :> Phys("m2", "up", <<>>)),
           ports |-> NoPorts, hints |-> NoHints],
          \* a lease reported by an interface with another MAC address
          [networks |-> "eth0" :> Phys("m2", "up", <<dA>>),
           ports |-> NoPorts, hints |-> NoHints],
          \* a bond with a dynamic link over a disabled first parent
          [networks |-> ("eth0" :> Phys("m1", "down", <<>>))
                        @@ ("eth1" :> Phys("m2", "up", <<>>))
                        @@ ("bond0" :> Child("bond", "m1", <<"eth0", "eth1">>, <<dA>>)),
           ports |-> NoPorts, hints |-> NoHints],
          \* the name of a physical interface, now the name of a bridge
          [networks |-> "eth0" :> Child("bridge", "m1", <<>>, <<>>),
           ports |-> NoPorts, hints |-> NoHints]}

mk(networks) == [networks |-> networks, ports |-> NoPorts, hints |-> NoHints]

\* the snapshots a behaviour starts with
FirstSnapshots ==
    {mk(NoNet),
     mk(("eth0" :> Phys("m1", "up", <<>>)) @@ ("eth1" :> Phys("m2", "up", <<>>))),
     mk(("eth0" :> Phys("m1", "up", <<sA>>)) @@ ("eth1" :> Phys("m2", "up", <<sB>>))),
     mk("eth0" :> Phys("m1", "down", <<>>)),
     mk("eth0" :> Phys("m1", "up", <<dA>>)),
     mk(("eth0" :> Phys("m1", "up", <<>>)) @@ ("eth1" :> Phys("m2", "up", <<>>))
        @@ ("bond0" :> Child("bond", "m1", <<"eth0", "eth1">>, <<>>))),
     mk(("eth0" :> Phys("m1", "up", <<>>))
        @@ ("eth0.10" :> Vlan("m1", 10, "eth0", <<>>))),
     mk(("eth0" :> Phys("m1", "up", <<sA>>))
        @@ ("eth0.10" :> Vlan("m1", 10, "eth0", <<>>))),
     mk(("eth0" :> Phys("m1", "down", <<>>)) @@ ("eth1" :> Phys("m2", "up", <<sB>>)))}

\* the iteration orders of a mapping with the keys K
RECURSIVE IterOrders(_)
IterOrders(K) ==
    IF K = {} THEN {<<>>}
    ELSE UNION {{<<k>> \o s : s \in IterOrders(K \ {k})} : k \in K}

(***************************************************************************)
(* The state machine.                                                       *)
(***************************************************************************)
NoData == mk(NoNet)

\* the graph before the first reconciliation: the default fabric with its
\* default VLAN, and a VLAN 10 of it with the subnet 32/4
InitDb ==
    [ifaces |-> [x \in {} |-> Null],
     parents |-> {},
     attach |-> {},
     fabrics |-> {1},
     vlans |-> (1 :> [fabric |-> 1, vid |-> 0]) @@ (2 :> [fabric |-> 1, vid |-> 10]),
     subnets |-> (3 :> [cidr |-> <<32, 4>>, vlan |-> 2, gateway |-> Null]),
     ips |-> [x \in {} |-> Null],
     nextid |-> 4,
     muts |-> {},
     err |-> "",
     boot |-> [n \in Nodes |-> Null]]

\* the two concurrent transactions, and one that is not running
Txs == {"t1", "t2"}

NoTx == [state |-> "idle", node |-> "n1", data |-> NoData, order |-> <<>>, idx |-> 1]

\* the snapshots of the concurrent reconciliations
LockSnapshots ==
    {mk("eth0" :> Phys("m1", "up", <<>>)),
     mk(("eth0" :> Phys("m1", "up", <<>>)) @@ ("eth1" :> Phys("m2", "up", <<>>))),
     mk(("eth0" :> Phys("m2", "up", <<>>)) @@ ("eth1" :> Phys("m1", "up", <<>>))),
     mk(("eth0" :> Phys("m1", "up", <<>>)) @@ ("eth1" :> Phys("m2", "up", <<>>))
        @@ ("bond0" :> Child("bond", "m1", <<"eth0", "eth1">>, <<>>)))}

\* the record a name stands for: a physical interface is found by its MAC
\* address on whatever node, any other interface by its name on the node
RecordOf(node, name, data) ==
    IF data.networks[name].kind = "physical"
    THEN <<"mac", IF get_card_port(name, data).present
                  THEN get_card_port(name, data).address
                  ELSE data.networks[name].hwaddr>>
    ELSE <<node, name>>

\* what the last iteration of the loop over the names did
NoStep == [name |-> "", iface |-> Null, via |-> "none", new_vlan |-> Null,
           hint_vlan |-> Null, link_vlan |-> Null, fabrics |-> {}]

Idle == [node |-> "n1", data |-> NoData, iter |-> <<>>, order |-> <<>>, idx |-> 1,
         current |-> {}, touched |-> {}, deletion |-> <<>>, deleted |-> <<>>,
         before |-> InitDb, rerun |-> FALSE, result |-> "none", step |-> NoStep,
         boot_interface_id |-> Null]

Init ==
    /\ db = InitDb
    /\ pc = "idle"
    /\ cur = Idle
    /\ last = Idle
    /\ runs = 0
    /\ txs = [t \in Txs |-> NoTx]
    /\ held = {}

\* an end of the transaction that keeps what a failed call had done
Finish_keeps_partial(d, c) ==
    /\ pc' = "idle"
    /\ db' = d
    /\ last' = [c EXCEPT !.result = IF d.err = "" THEN "ok" ELSE d.err,
                         !.iter = <<>>]
    /\ cur' = Idle

\* the transaction ends: commit, or rollback when an exception ended it
Finish(d, c) ==
    /\ pc' = "idle"
    /\ db' = IF d.err = "" THEN d ELSE [c.before EXCEPT !.err = d.err]
    /\ last' = [c EXCEPT !.result = IF d.err = "" THEN "ok" ELSE d.err,
                         !.iter = <<>>]
    /\ cur' = Idle

\* lines 77-103: the call, up to the first iteration of the loop
Begin(node, data, iter) ==
    LET po == process_order(data, iter)
        rerun == last.result = "ok" /\ last.node = node /\ last.data = data
        d == [db EXCEPT !.muts = {}, !.err = ""]
        c == [node |-> node, data |-> data, iter |-> iter, order |-> po.order,
              idx |-> 1,
              current |-> NodeIfaces(db, node), touched |-> {},
              deletion |-> <<>>, deleted |-> <<>>,
              before |-> d, rerun |-> rerun, result |-> "running", step |-> NoStep,
              boot_interface_id |-> db.boot[node]]
    IN /\ pc = "idle"
       /\ IF rerun THEN ~last.rerun ELSE runs < MaxRuns
       /\ runs = 0 => data \in FirstSnapshots
       /\ runs' = IF rerun THEN runs ELSE runs + 1
       /\ IF po.ok
          THEN /\ pc' = "update"
               /\ db' = d
               /\ cur' = c
               /\ last' = Idle
          ELSE Finish(Raise(d, "CycleError"), c)

\* lines 112-123: r is what update_interface returned for the name
Updated(r, name) ==
    LET c == [cur EXCEPT !.step = [name |-> name, iface |-> r.iface,
                                   via |-> r.via, new_vlan |-> r.new_vlan,
                                   hint_vlan |-> r.hint_vlan,
                                   link_vlan |-> r.link_vlan,
                                   fabrics |-> db.fabrics]]
    IN IF r.d.err # ""
       THEN Finish(r.d, c)
       ELSE /\ db' = r.d
            /\ pc' = "update"
            /\ cur' = [c EXCEPT !.idx = @ + 1,
                                !.iter = <<>>,
                                !.touched = @ \cup ({r.iface} \ {Null}),
                                !.current = @ \ {r.iface}]
            /\ UNCHANGED last

\* lines 104-123: one iteration of the loop over the names
UpdateStep(iter) ==
    /\ pc = "update"
    /\ cur.idx <= Len(cur.order)
    /\ UNCHANGED runs
    /\ Updated(update_interface(db, cur.node, cur.order[cur.idx], cur.data, iter),
               cur.order[cur.idx])

\* a deletion plan that spares the oldest candidate
deletion_order_spares_one(d, current_interfaces) ==
    [ok |-> TRUE,
     order |-> IF current_interfaces = {} THEN <<>>
               ELSE SortedIds(current_interfaces \ {Min(current_interfaces)})]

\* an empty deletion plan: the interfaces the snapshot left out are kept
deletion_order_empty(d, current_interfaces) ==
    [ok |-> TRUE, order |-> <<>>]

\* a deletion plan that is not reversed: parents first
deletion_order_parents_first(d, current_interfaces) ==
    LET deps == [nic_id \in current_interfaces |->
                    IF nic_id \in IfaceIds(d)
                    THEN ParentsOf(d, nic_id) \cap current_interfaces
                    ELSE {}]
        st == sorttop(deps)
    IN [ok |-> st.ok,
        order |-> Flatten([i \in 1..Len(st.batches) |-> SortedIds(st.batches[i])])]

\* lines 127-136: the order of the deletions
deletion_order(d, current_interfaces) ==
    LET deps == [nic_id \in current_interfaces |->
                    IF nic_id \in IfaceIds(d)
                    THEN ParentsOf(d, nic_id) \cap current_interfaces
                    ELSE {}]
        st == sorttop(deps)
    IN [ok |-> st.ok,
        order |-> Reverse(Flatten([i \in 1..Len(st.batches) |->
                                      SortedIds(st.batches[i])]))]

PlanDeletion ==
    LET dl == deletion_order(db, cur.current)
    IN /\ pc = "update"
       /\ cur.idx > Len(cur.order)
       /\ UNCHANGED runs
       /\ IF dl.ok
          THEN /\ pc' = "delete"
               /\ cur' = [cur EXCEPT !.deletion = dl.order]
               /\ UNCHANGED <<db, last>>
          ELSE Finish(Raise(db, "CycleError"), cur)

\* lines 137-140: one iteration of the deletion loop
DeleteStep ==
    LET d == IfacesDelete(db, {Head(cur.deletion)})
    IN /\ pc = "delete"
       /\ cur.deletion # <<>>
       /\ UNCHANGED runs
       /\ IF d.err # ""
          THEN Finish(d, cur)
          ELSE /\ db' = d
               /\ pc' = "delete"
               /\ cur' = [cur EXCEPT !.deletion = Tail(@),
                                     !.deleted = Append(@, Head(cur.deletion)),
                                     !.boot_interface_id =
                                         IF @ = Head(cur.deletion) THEN Null ELSE @]
               /\ UNCHANGED last

\* line 141: node.save() writes the boot interface the node object holds
NodeSave(d, node, boot_interface_id) ==
    IF d.boot[node] = boot_interface_id THEN d
    ELSE Mut([d EXCEPT !.boot[node] = boot_interface_id], <<"save", "node">>)

\* line 141 and the end of the transaction
Commit ==
    /\ pc = "delete"
    /\ cur.deletion = <<>>
    /\ Finish(NodeSave(db, cur.node, cur.boot_interface_id), cur)
    /\ UNCHANGED runs

\* outside a reconciliation, a physical interface of a node becomes its boot
\* interface; one node at most has one
Designate(node, i) ==
    /\ pc = "idle"
    /\ runs < MaxRuns
    /\ \A n \in Nodes : db.boot[n] = Null
    /\ i \in NodeIfaces(db, node)
    /\ db.ifaces[i].type = "physical"
    /\ db' = [db EXCEPT !.boot[node] = i]
    /\ last' = Idle
    /\ UNCHANGED <<pc, cur, runs>>

Next ==
    \/ \E node \in Nodes, data \in Snapshots :
           \E iter \in IterOrders(DOMAIN data.networks) :
               Begin(node, data, iter) /\ UNCHANGED lvars
    \/ \E iter \in {"asc", "desc"} : UpdateStep(iter) /\ UNCHANGED lvars
    \/ PlanDeletion /\ UNCHANGED lvars
    \/ DeleteStep /\ UNCHANGED lvars
    \/ Commit /\ UNCHANGED lvars
    \/ \E node \in Nodes, i \in IfaceIds(db) : Designate(node, i) /\ UNCHANGED lvars

Spec == Init /\ [][Next]_vars

(***************************************************************************)
(* Two reconciliations at once.  A reconciliation modifies the record of    *)
(* each name in its processing order; the database gives it the record's    *)
(* lock, which it holds until its transaction ends, and makes it wait       *)
(* while the other transaction holds that lock.                             *)
(***************************************************************************)
\* a transaction modifies one interface record after another
TxBegin(t, node, data, iter) ==
    LET po == process_order(data, iter)
    IN /\ txs[t].state = "idle"
       /\ po.ok
       /\ txs' = [txs EXCEPT ![t] = [state |-> "run", node |-> node, data |-> data,
                                     order |-> po.order, idx |-> 1]]
       /\ UNCHANGED <<held, rvars>>

\* the record the next name of t stands for
NextRecord(t) ==
    RecordOf(txs[t].node, txs[t].order[txs[t].idx], txs[t].data)

Running(t) == txs[t].state = "run" /\ txs[t].idx <= Len(txs[t].order)

\* t cannot go on: the other transaction holds the record t modifies next
Waiting(t) ==
    /\ Running(t)
    /\ \E u \in Txs \ {t} : <<u, NextRecord(t)>> \in held

TxUpdate(t) ==
    /\ Running(t)
    /\ ~Waiting(t)
    /\ held' = held \cup {<<t, NextRecord(t)>>}
    /\ txs' = [txs EXCEPT ![t].idx = @ + 1]
    /\ UNCHANGED rvars

TxCommit(t) ==
    /\ txs[t].state = "run"
    /\ txs[t].idx > Len(txs[t].order)
    /\ held' = {h \in held : h[1] # t}
    /\ txs' = [txs EXCEPT ![t] = NoTx]
    /\ UNCHANGED rvars

NextLocks ==
    \/ \E t \in Txs, node \in Nodes, data \in LockSnapshots :
           \E iter \in IterOrders(DOMAIN data.networks) : TxBegin(t, node, data, iter)
    \/ \E t \in Txs : TxUpdate(t)
    \/ \E t \in Txs : TxCommit(t)

SpecLocks == Init /\ [][NextLocks]_vars

(***************************************************************************)
(* Views of the state the properties are stated on.                         *)
(***************************************************************************)
\* an interface is named by its node and name, an address by its value
IfaceName(d, i) == <<d.ifaces[i].node, d.ifaces[i].name>>

AddrView(d, a) ==
    <<d.ips[a].ip, d.ips[a].alloc,
      IF d.ips[a].subnet = Null THEN <<>> ELSE d.subnets[d.ips[a].subnet].cidr>>

\* the persisted graph without the primary keys of interfaces and addresses
GraphView(d) ==
    [ifaces |-> {[node |-> d.ifaces[i].node, name |-> d.ifaces[i].name,
                  type |-> d.ifaces[i].type, mac |-> d.ifaces[i].mac,
                  enabled |-> d.ifaces[i].enabled, vlan |-> d.ifaces[i].vlan,
                  parents |-> {IfaceName(d, p) : p \in ParentsOf(d, i)},
                  ips |-> {AddrView(d, a) : a \in IpsOf(d, i)}] : i \in IfaceIds(d)},
     fabrics |-> d.fabrics, vlans |-> d.vlans, subnets |-> d.subnets,
     ips |-> {<<AddrView(d, a), {IfaceName(d, i) : i \in IfacesOf(d, a)}>> :
                 a \in DOMAIN d.ips}]

\* the persisted graph, primary keys included
Persisted(d) ==
    [ifaces |-> d.ifaces, parents |-> d.parents, attach |-> d.attach,
     fabrics |-> d.fabrics, vlans |-> d.vlans, subnets |-> d.subnets,
     ips |-> d.ips, boot |-> d.boot]

\* a call has returned; it was the second call with the same snapshot
Returned == pc = "idle" /\ last.result # "none"
Succeeded == Returned /\ last.result = "ok"
Resubmitted == Succeeded /\ last.rerun

\* the declared parents of a name that are names of the snapshot
PresentParents(data, name) ==
    Range(DeclaredParents(data.networks[name])) \cap DOMAIN data.networks

\* the names reached from a name by at most k parent edges
RECURSIVE Ancestors(_, _, _)
Ancestors(data, name, k) ==
    IF k = 0 THEN {}
    ELSE PresentParents(data, name)
         \cup UNION {Ancestors(data, p, k - 1) : p \in PresentParents(data, name)}

HasCycle(data) ==
    \E name \in DOMAIN data.networks :
        name \in Ancestors(data, name, Cardinality(DOMAIN data.networks))

\* the length of the longest chain of parents below a name, up to k
RECURSIVE Chain(_, _, _)
Chain(data, name, k) ==
    IF k = 0 \/ PresentParents(data, name) = {} THEN 0
    ELSE LET below == {Chain(data, p, k - 1) : p \in PresentParents(data, name)}
         IN 1 + CHOOSE m \in below : \A n \in below : n <= m

Depth(data, name) == Chain(data, name, Cardinality(DOMAIN data.networks))

\* the place of a name in a sequence of names
Place(o, name) == CHOOSE i \in 1..Len(o) : o[i] = name

(***************************************************************************)
(* Properties.                                                              *)
(***************************************************************************)
\* C1: when a snapshot is reconciled a second time right after it was
\* reconciled with success, the graph after the second call equals the graph
\* before it: same interfaces (name, kind, enabled, parents, VLAN), fabrics,
\* VLANs, subnets, gateways, addresses and attachments.
IdempotentState == Resubmitted => GraphView(db) = GraphView(last.before)

\* C2: the second call with the same snapshot creates, updates and deletes
\* no record and changes no attachment.
NoMutationOnResubmission == Resubmitted => db.muts = {}

\* C3: the names are processed in an order in which every name comes after
\* all of its declared parents that are names of the snapshot, and every
\* name of the snapshot comes exactly once.
TopologicalOrder ==
    pc # "idle" =>
        /\ Len(cur.order) = Cardinality(DOMAIN cur.data.networks)
        /\ Range(cur.order) = DOMAIN cur.data.networks
        /\ \A name \in DOMAIN cur.data.networks :
              \A p \in PresentParents(cur.data, name) :
                  Place(cur.order, p) < Place(cur.order, name)

\* a running call whose snapshot has a child with a parent that is present
\* and a later name in the alphabet than its child, and another parent
WitnessTopologicalOrder ==
    /\ pc = "update"
    /\ cur.idx > Len(cur.order)
    /\ \E name \in DOMAIN cur.data.networks :
          /\ Cardinality(PresentParents(cur.data, name)) = 2
          /\ \E p \in PresentParents(cur.data, name) : NameRank[name] < NameRank[p]

\* C4: the order of the names is a function of the snapshot alone: names are
\* ordered by batch, and within a batch by name, whatever the iteration
\* order of the mapping.
DeterministicOrder ==
    pc # "idle" =>
        \A i, j \in 1..Len(cur.order) :
            i < j =>
                LET a == cur.order[i]
                    b == cur.order[j]
                IN \/ Depth(cur.data, a) < Depth(cur.data, b)
                   \/ /\ Depth(cur.data, a) = Depth(cur.data, b)
                      /\ NameRank[a] < NameRank[b]

\* a running call whose mapping iterated two independent names in the
\* opposite order of the one they are processed in
WitnessDeterministicOrder ==
    /\ pc = "update"
    /\ \E a, b \in DOMAIN cur.data.networks :
          /\ a # b
          /\ a \notin Ancestors(cur.data, b, 3) /\ b \notin Ancestors(cur.data, a, 3)
          /\ Place(cur.order, a) < Place(cur.order, b)
          /\ Place(cur.iter, b) < Place(cur.iter, a)

\* C5: a snapshot with a cycle of parents makes the call fail with a cycle
\* error, and a call that fails leaves the persisted graph exactly as it was
\* before the call.
FailureAtomic ==
    Returned =>
        /\ HasCycle(last.data) => last.result = "CycleError"
        /\ last.result # "ok" => Persisted(db) = Persisted(last.before)

\* a call that failed after it had reconciled an interface, on a graph that
\* had interfaces
WitnessFailureAtomic ==
    /\ Returned
    /\ last.result \notin {"ok", "CycleError"}
    /\ last.idx > 1
    /\ IfaceIds(db) # {}

\* C6: two reconciliations at once never come to a state in which each
\* waits for a record the other holds.
NoLockOrderDeadlock == ~(\A t \in Txs : Waiting(t))

\* the step before was guided by a hint to a VLAN, and a link of the
\* interface lies in a known subnet of another VLAN
HintAgainstLink(s) ==
    s.via = "hint" /\ s.link_vlan # Null /\ s.link_vlan # s.hint_vlan

\* C7: an enabled physical interface without a VLAN gets the VLAN of its
\* hint even when a link of it lies in a known subnet of another VLAN; and
\* when no hint applies and a link lies in a known subnet it gets the VLAN
\* of that subnet, and no fabric is created for it.
InferencePriority ==
    /\ ~(Returned /\ last.result # "ok" /\ HintAgainstLink(last.step))
    /\ pc = "update" /\ HintAgainstLink(cur.step) =>
           db.ifaces[cur.step.iface].vlan = cur.step.hint_vlan
    /\ pc = "update" /\ cur.step.via = "link" =>
           /\ db.ifaces[cur.step.iface].vlan = cur.step.link_vlan
           /\ db.fabrics = cur.step.fabrics

\* what a snapshot reports of a physical interface
ReportedMac(data, name) ==
    IF get_card_port(name, data).present
    THEN get_card_port(name, data).address
    ELSE data.networks[name].hwaddr

ReportedEnabled(data, name) ==
    /\ data.networks[name].state = "up"
    /\ get_card_port(name, data).present => get_card_port(name, data).link_detected

\* the physical interfaces of the node that had a VLAN before the call and
\* that the snapshot reports as not enabled
DisabledWithVlan ==
    {i \in NodeIfaces(last.before, last.node) :
        /\ last.before.ifaces[i].type = "physical"
        /\ last.before.ifaces[i].vlan # Null
        /\ \E name \in DOMAIN last.data.networks :
              /\ last.data.networks[name].kind = "physical"
              /\ last.data.networks[name].type = "broadcast"
              /\ ReportedMac(last.data, name) = last.before.ifaces[i].mac
              /\ ~ReportedEnabled(last.data, name)}

\* C8: a physical interface that had a VLAN and is reported as not enabled
\* has the same VLAN after the reconciliation, whatever its links and hints.
DisabledKeepsVlan ==
    Succeeded =>
        \A i \in DisabledWithVlan :
            i \in IfaceIds(db) => db.ifaces[i].vlan = last.before.ifaces[i].vlan

\* the step before placed its interface by fallback
FallbackStep == pc = "update" /\ cur.step.via \in {"default", "fabric"}

\* the interfaces other than the one of the step before
Others == IfaceIds(db) \ {cur.step.iface}

\* C9 as the specification states it: an interface placed by fallback gets
\* the default VLAN only if no interface is on it, otherwise the default
\* VLAN of a fabric created for it, and shares its fabric with no interface
\* that was already there.
FallbackNeverSharesFabric ==
    FallbackStep =>
        \A i \in Others :
            db.ifaces[i].vlan # Null =>
                db.vlans[db.ifaces[i].vlan].fabric # db.vlans[cur.step.new_vlan].fabric

\* C9: an interface placed by fallback gets the default VLAN of the default
\* fabric only if no interface is on that VLAN, otherwise the default VLAN
\* of a fabric created for it; it shares its VLAN with no interface that was
\* already there.
FallbackAllocation ==
    FallbackStep =>
        /\ db.ifaces[cur.step.iface].vlan = cur.step.new_vlan
        /\ \A i \in Others : db.ifaces[i].vlan # cur.step.new_vlan
        /\ cur.step.via = "default" => cur.step.new_vlan = get_default_vlan(db)
        /\ cur.step.via = "fabric" =>
              /\ db.vlans[cur.step.new_vlan].fabric \notin cur.step.fabrics
              /\ db.vlans[cur.step.new_vlan].fabric \in db.fabrics
              /\ db.vlans[cur.step.new_vlan].vid = 0
              /\ \E i \in Others : db.ifaces[i].vlan = get_default_vlan(db)

\* an interface was placed on a fabric created for it while another fabric
\* created by fallback was there
WitnessFallbackAllocation ==
    /\ FallbackStep
    /\ cur.step.via = "fabric"
    /\ Cardinality(cur.step.fabrics) > 1

\* C10: after a call succeeded, an interface the node owned before the call
\* exists if and only if update_interface returned it for a name of the
\* snapshot during the call.
DeletionSet ==
    Succeeded =>
        \A i \in NodeIfaces(last.before, last.node) :
            i \in IfaceIds(db) <=> i \in last.touched

\* a call succeeded that kept an interface of the node and deleted two
WitnessDeletionSet ==
    /\ Succeeded
    /\ NodeIfaces(last.before, last.node) \cap last.touched # {}
    /\ Len(last.deleted) > 1
    /\ Range(last.deleted) \cap IfaceIds(db) = {}

\* C11: in the deletion phase a child is deleted before its parent: no
\* interface of the plan comes before one of its children, and no interface
\* was deleted while a candidate that had it as a parent still exists.
ReverseDeletionOrder ==
    pc = "delete" =>
        /\ \A i, j \in 1..Len(cur.deletion) :
              i < j => <<cur.deletion[j], cur.deletion[i]>> \notin db.parents
        /\ \A a \in Range(cur.deleted), b \in Range(cur.deletion) :
              b \in IfaceIds(db) => <<b, a>> \notin cur.before.parents

\* a child was deleted and its two parents wait for their deletion
WitnessReverseDeletionOrder ==
    /\ pc = "delete"
    /\ \E b \in Range(cur.deleted) :
          Cardinality({a \in Range(cur.deletion) :
                          <<b, a>> \in cur.before.parents}) = 2

\* C12: no interface is deleted while a node designates it as its boot
\* interface: the node object of the running call never holds a deleted
\* interface, and after a call that succeeded the boot interface of every
\* node is an interface that exists.
BootDesignation ==
    /\ pc = "delete" => cur.boot_interface_id \notin Range(cur.deleted)
    /\ Succeeded =>
           \A n \in Nodes : db.boot[n] # Null => db.boot[n] \in IfaceIds(db)

\* the physical interfaces the snapshot of the last call reports, as names
ReportedPhysical ==
    {name \in DOMAIN last.data.networks :
        /\ last.data.networks[name].kind = "physical"
        /\ last.data.networks[name].type = "broadcast"
        /\ last.data.networks[name].hwaddr # SWITCH_OPENBMC_MAC}

\* <<name, o>>: the snapshot reports under name the MAC address that the
\* physical interface o of another node had before the call
Rehomed ==
    {x \in ReportedPhysical \X IfaceIds(last.before) :
        /\ last.before.ifaces[x[2]].type = "physical"
        /\ last.before.ifaces[x[2]].mac = ReportedMac(last.data, x[1])
        /\ last.before.ifaces[x[2]].node # last.node}

\* the addresses the snapshot reports on the interfaces with the MAC address
ReportedAddresses(data, mac) ==
    UNION {{a.address : a \in Range(data.networks[name].addresses)} :
              name \in {n \in DOMAIN data.networks : ReportedMac(data, n) = mac}}

PhysicalWithMac(d, mac) ==
    {i \in IfaceIds(d) : d.ifaces[i].type = "physical" /\ d.ifaces[i].mac = mac}

\* C13: after a call for node N succeeded with a snapshot that reports the MAC
\* address of a physical interface another node had, one physical interface
\* has that address, N owns it, the record of the other node is gone, and
\* the addresses of that record that N's interface has are reported by the
\* snapshot; between the calls no two physical interfaces share a MAC address.
MacOwnership ==
    /\ Succeeded =>
           \A x \in Rehomed :
               /\ Cardinality(PhysicalWithMac(db, ReportedMac(last.data, x[1]))) = 1
               /\ x[2] \notin IfaceIds(db)
               /\ \A i \in PhysicalWithMac(db, ReportedMac(last.data, x[1])) :
                     /\ db.ifaces[i].node = last.node
                     /\ \A a \in IpsOf(db, i) \cap IpsOf(last.before, x[2]) :
                           db.ips[a].ip \in
                               ReportedAddresses(last.data, db.ifaces[i].mac)
    /\ pc = "idle" =>
           \A i, j \in IfaceIds(db) :
               (/\ i # j
                /\ db.ifaces[i].type = "physical"
                /\ db.ifaces[j].type = "physical") => db.ifaces[i].mac # db.ifaces[j].mac

\* the MAC address of a record that had an address moved to the caller
WitnessMacOwnership ==
    /\ Succeeded
    /\ \E x \in Rehomed : IpsOf(last.before, x[2]) # {}

\* the physical interfaces the node had before the last call under a name the
\* snapshot reports with another MAC address, while it reports theirs nowhere
StaleNamesakes ==
    {o \in NodeIfaces(last.before, last.node) :
        /\ last.before.ifaces[o].type = "physical"
        /\ last.before.ifaces[o].name \in ReportedPhysical
        /\ \A name \in ReportedPhysical :
              ReportedMac(last.data, name) # last.before.ifaces[o].mac}

\* C14: after a call that succeeded no two interfaces of the node have the
\* same name, whatever their kinds; the interface with the name of a reported
\* physical interface has the reported MAC address, and a physical interface
\* the node had under such a name with a MAC address the snapshot does not
\* report exists no more.
NameUniqueness ==
    Succeeded =>
        /\ \A i, j \in NodeIfaces(db, last.node) :
              i # j => db.ifaces[i].name # db.ifaces[j].name
        /\ \A name \in ReportedPhysical, i \in NodeIfaces(db, last.node) :
              db.ifaces[i].name = name =>
                  db.ifaces[i].mac = ReportedMac(last.data, name)
        /\ StaleNamesakes \cap IfaceIds(db) = {}

\* the node had an interface under a reported name with another MAC address
WitnessNameUniqueness ==
    /\ Succeeded
    /\ StaleNamesakes # {}
    /\ Cardinality(NodeIfaces(db, last.node)) > 1

\* the fabrics, VLANs and subnets of d are those of e, or more
ContainersKept(d, e) ==
    /\ d.fabrics \subseteq e.fabrics
    /\ \A v \in DOMAIN d.vlans : v \in DOMAIN e.vlans
    /\ \A s \in DOMAIN d.subnets : s \in DOMAIN e.subnets

ReportedLinks ==
    UNION {{<<name, a>> : a \in {l \in Range(last.data.networks[name].addresses) :
                                     l.scope = "global"}} :
              name \in {n \in DOMAIN last.data.networks :
                           /\ last.data.networks[n].type = "broadcast"
                           /\ last.data.networks[n].hwaddr # SWITCH_OPENBMC_MAC}}

\* the interfaces of the node with the name
IfaceNamed(d, node, name) == {i \in NodeIfaces(d, node) : d.ifaces[i].name = name}

\* the rows with the address value
RowsOf(d, ip) == {a \in DOMAIN d.ips : d.ips[a].ip = ip}

\* the link of the interface i was left out: i is a VLAN interface and the
\* subnet of the link is on another VLAN (force_vlan)
LeftOut(d, i, link) ==
    /\ d.ifaces[i].type = "vlan"
    /\ \E s \in DOMAIN d.subnets :
          /\ d.subnets[s].cidr = CidrOf(link.address, link.netmask)
          /\ d.subnets[s].vlan # d.ifaces[i].vlan

\* the class of the row of a reported link
ClassOf(node, link) ==
    IF link.mode = "dhcp" \/ is_commissioning(node) THEN "DISCOVERED" ELSE "STICKY"

\* C16: no two address rows have the same value, at any time; after a call
\* that succeeded, the value of a reported link that was not left out has
\* one row, with the class and the subnet of the link, attached to the
\* interface it was reported on.
AddressValueUnique ==
    /\ \A a, b \in DOMAIN db.ips :
          (a # b /\ db.ips[a].ip # Null) => db.ips[a].ip # db.ips[b].ip
    /\ Succeeded =>
          \A x \in ReportedLinks :
              \A i \in IfaceNamed(db, last.node, x[1]) :
                  ~LeftOut(db, i, x[2]) =>
                      /\ Cardinality(RowsOf(db, x[2].address)) = 1
                      /\ \A a \in RowsOf(db, x[2].address) :
                            /\ db.ips[a].alloc = ClassOf(last.node, x[2])
                            /\ db.ips[a].subnet # Null
                            /\ db.subnets[db.ips[a].subnet].cidr =
                                   CidrOf(x[2].address, x[2].netmask)
                            /\ <<i, a>> \in db.attach

\* C17: after a call that succeeded, the subnet of every address attached to
\* an interface the call reconciled is on the VLAN of that interface.
AddressVlanConsistent ==
    Succeeded =>
        \A i \in last.touched \cap IfaceIds(db) :
            \A a \in IpsOf(db, i) :
                db.ips[a].subnet # Null =>
                    db.subnets[db.ips[a].subnet].vlan = db.ifaces[i].vlan

\* the fixed links among the reported links
FixedLinks == {x \in ReportedLinks : x[2].mode # "dhcp"}

\* the address of the link x is attached to the interface i, and to
\* interfaces of the node alone
FollowsReport(d, node, i, x) ==
    \E a \in RowsOf(d, x[2].address) :
        /\ <<i, a>> \in d.attach
        /\ \A j \in IfacesOf(d, a) : d.ifaces[j].node = node

LinksOn(i) == {x[2] : x \in {y \in ReportedLinks : y[1] = db.ifaces[i].name}}

\* <<i, a>>: the interface i of the node was there before the last call and
\* was reconciled by it, the address a was attached to it, and the snapshot
\* reports no link for a: none with its value, no dhcp link for a placeholder
Removed ==
    {x \in (last.touched \cap IfaceIds(last.before) \cap IfaceIds(db))
              \X DOMAIN last.before.ips :
        /\ <<x[1], x[2]>> \in last.before.attach
        /\ IF last.before.ips[x[2]].ip = Null
           THEN \A l \in LinksOn(x[1]) : l.mode # "dhcp"
           ELSE \A l \in LinksOn(x[1]) : l.address # last.before.ips[x[2]].ip}

ChildIsNext ==
    /\ pc = "update"
    /\ cur.idx <= Len(cur.order)
    /\ cur.data.networks[cur.order[cur.idx]].kind \in {"bond", "bridge", "vlan"}
    /\ cur.data.networks[cur.order[cur.idx]].type = "broadcast"
    /\ cur.data.networks[cur.order[cur.idx]].hwaddr # SWITCH_OPENBMC_MAC

\* C20: when a bond, a bridge or a VLAN interface is about to be reconciled,
\* every parent it declares that is a name of the snapshot has been
\* reconciled by this call and is, under that name, an interface of the node.
ParentsPersisted ==
    ChildIsNext =>
        \A p \in PresentParents(cur.data, cur.order[cur.idx]) :
            \E i \in cur.touched \cap NodeIfaces(db, cur.node) :
                db.ifaces[i].name = p

\* the bonds, bridges and VLAN interfaces of the last snapshot that
\* update_interface models and that declare a parent the snapshot lacks
WithAbsentParent ==
    {name \in DOMAIN last.data.networks :
        /\ last.data.networks[name].kind \in {"bond", "bridge", "vlan"}
        /\ last.data.networks[name].type = "broadcast"
        /\ last.data.networks[name].hwaddr # SWITCH_OPENBMC_MAC
        /\ \E p \in Range(DeclaredParents(last.data.networks[name])) :
              p \notin DOMAIN last.data.networks}

\* C21: a call whose snapshot has an interface with a parent that is not a
\* name of the snapshot succeeds, and afterwards every parent of that
\* interface is an interface the call reconciled under a name of the snapshot.
AbsentParentIgnored ==
    (Returned /\ WithAbsentParent # {}) =>
        /\ last.result = "ok"
        /\ \A name \in WithAbsentParent :
              \A i \in IfaceNamed(db, last.node, name) :
                  \A q \in ParentsOf(db, i) :
                      /\ q \in last.touched
                      /\ db.ifaces[q].name \in DOMAIN last.data.networks

\* the bonds and bridges of the last snapshot that update_interface models
\* and none of whose declared parents is the name of an interface of the node
Parentless(kind) ==
    {name \in DOMAIN last.data.networks :
        /\ last.data.networks[name].kind = kind
        /\ last.data.networks[name].type = "broadcast"
        /\ last.data.networks[name].hwaddr # SWITCH_OPENBMC_MAC
        /\ \A p \in Range(DeclaredParents(last.data.networks[name])) :
              IfaceNamed(db, last.node, p) = {}}

\* C22: after a call that succeeded, a bond whose lower devices resolve to no
\* interface of the node has no record, and a bridge whose parents resolve to
\* none has one record, a bridge that the call reconciled.
ParentlessChildren ==
    Succeeded =>
        /\ \A name \in Parentless("bond") : IfaceNamed(db, last.node, name) = {}
        /\ \A name \in Parentless("bridge") :
              /\ Cardinality(IfaceNamed(db, last.node, name)) = 1
              /\ \A i \in IfaceNamed(db, last.node, name) :
                    /\ db.ifaces[i].type = "bridge"
                    /\ i \in last.touched

\* a bond the node had was reported without a resolved lower device
WitnessParentlessChildren ==
    /\ Succeeded
    /\ \E name \in Parentless("bond") : IfaceNamed(last.before, last.node, name) # {}

\* the links update_interface passes on for the name
GlobalLinks(data, name) ==
    SelectSeq(data.networks[name].addresses, LAMBDA a : a.scope = "global")

\* the first of the declared parents that is the name of an interface of
\* the node
FirstParent(d, node, parents) ==
    LET k == Min({j \in 1..Len(parents) : IfaceNamed(d, node, parents[j]) # {}})
    IN Min(IfaceNamed(d, node, parents[k]))

\* the loop reconciles a bond or a bridge that has a resolved parent and no
\* link in a known subnet, and returns its interface
ChildWithoutEvidence ==
    /\ ChildIsNext
    /\ cur.data.networks[cur.order[cur.idx]].kind \in {"bond", "bridge"}
    /\ get_interfaces_on_node_by_name(
           db, cur.node, cur.data.networks[cur.order[cur.idx]].parents) # <<>>
    /\ get_interface_vlan_from_links(
           db, GlobalLinks(cur.data, cur.order[cur.idx])) = Null
    /\ pc' = "update"
    /\ cur'.step.iface # Null

\* C23: a bond or a bridge with a resolved parent and no link in a known
\* subnet is, once reconciled, on the VLAN of its first parent.
InheritsParentVlan ==
    [][ChildWithoutEvidence =>
           db'.ifaces[cur'.step.iface].vlan =
               db'.ifaces[FirstParent(db', cur.node,
                   cur.data.networks[cur.order[cur.idx]].parents)].vlan]_vars

\* the VLAN that get_interface_vlan_from_links finds for the links of the
\* name the loop reconciles next; Null when no link lies in a known subnet
LinksVlanOfNext ==
    get_interface_vlan_from_links(db, GlobalLinks(cur.data, cur.order[cur.idx]))

\* the loop reconciles a VLAN interface over a parent that has a VLAN, and
\* the VLAN its links imply has another tag than the interface reports or
\* lies in another fabric than the VLAN of the parent
VlanAgainstLinks ==
    /\ ChildIsNext
    /\ cur.data.networks[cur.order[cur.idx]].kind = "vlan"
    /\ LinksVlanOfNext # Null
    /\ \E p \in IfaceNamed(db, cur.node, cur.data.networks[cur.order[cur.idx]].parents[1]) :
          /\ IfaceNamed(db, cur.node, db.ifaces[p].name) = {p}
          /\ db.ifaces[p].vlan # Null
          /\ \/ db.vlans[LinksVlanOfNext].vid # cur.data.networks[cur.order[cur.idx]].vid
             \/ db.vlans[LinksVlanOfNext].fabric # db.vlans[db.ifaces[p].vlan].fabric

\* C24: a VLAN interface whose links imply a VLAN with another tag, or in
\* another fabric than its parent, is reconciled without failure and put on
\* the VLAN the links imply.
LinkVlanWins ==
    [][VlanAgainstLinks =>
           /\ pc' = "update"
           /\ cur'.step.iface \in IfaceIds(db')
           /\ db'.ifaces[cur'.step.iface].name = cur.order[cur.idx]
           /\ db'.ifaces[cur'.step.iface].vlan = LinksVlanOfNext]_vars

\* a VLAN interface that reports tag 10 is on a VLAN with another tag
WitnessLinkVlanWins ==
    /\ pc = "update"
    /\ cur.step.iface \in IfaceIds(db)
    /\ db.ifaces[cur.step.iface].type = "vlan"
    /\ cur.data.networks[cur.step.name].kind = "vlan"
    /\ db.ifaces[cur.step.iface].vlan # Null
    /\ db.vlans[db.ifaces[cur.step.iface].vlan].vid # cur.data.networks[cur.step.name].vid

\* the addresses the links confirmed on the interface i: the fixed links'
\* addresses attached to i as STICKY or DISCOVERED addresses
ConfirmedOn(d, i, links) ==
    {a \in IpsOf(d, i) :
        /\ d.ips[a].alloc \in {"STICKY", "DISCOVERED"}
        /\ \E k \in 1..Len(links) :
              links[k].mode # "dhcp" /\ links[k].address = d.ips[a].ip}

\* the confirmed addresses of the better class: the STICKY ones when there
\* is one, else the DISCOVERED ones
BetterClass(d, ips) ==
    IF \E a \in ips : d.ips[a].alloc = "STICKY"
    THEN {a \in ips : d.ips[a].alloc = "STICKY"}
    ELSE ips

\* the loop reconciles a bond or a bridge and returns its interface
BondOrBridgeDone ==
    /\ ChildIsNext
    /\ cur.data.networks[cur.order[cur.idx]].kind \in {"bond", "bridge"}
    /\ pc' = "update"
    /\ cur'.step.iface \in IfaceIds(db')

\* C25: once a bond or a bridge with a confirmed address is reconciled, the
\* interface and each of its resolved parents are on the VLAN of the subnet
\* of a confirmed address of the better class, and a parent that was on
\* that VLAN is left as it was.
BackPropagation ==
    [][BondOrBridgeDone
       /\ ConfirmedOn(db', cur'.step.iface, GlobalLinks(cur.data, cur.order[cur.idx])) # {}
       => \E a \in BetterClass(db', ConfirmedOn(db', cur'.step.iface,
                                   GlobalLinks(cur.data, cur.order[cur.idx]))) :
             /\ db'.ifaces[cur'.step.iface].vlan = db'.subnets[db'.ips[a].subnet].vlan
             /\ \A p \in Range(get_interfaces_on_node_by_name(db, cur.node,
                             cur.data.networks[cur.order[cur.idx]].parents)) :
                   /\ db'.ifaces[p].vlan = db'.subnets[db'.ips[a].subnet].vlan
                   /\ db.ifaces[p].vlan = db'.subnets[db'.ips[a].subnet].vlan
                      => db'.ifaces[p] = db.ifaces[p]]_vars

\* a bond with a confirmed address is reconciled, and a parent of it is on
\* the VLAN of the bond while the first run had put it elsewhere
WitnessBackPropagation ==
    /\ pc = "update"
    /\ cur.step.iface \in IfaceIds(db)
    /\ db.ifaces[cur.step.iface].type = "bond"
    /\ ConfirmedOn(db, cur.step.iface, GlobalLinks(cur.data, cur.step.name)) # {}
    /\ \E p \in ParentsOf(db, cur.step.iface) :
          /\ p \in IfaceIds(cur.before)
          /\ db.ifaces[p].vlan = db.ifaces[cur.step.iface].vlan
          /\ cur.before.ifaces[p].vlan # db.ifaces[p].vlan
          /\ cur.before.ifaces[p].vlan # Null

\* the address of the set ips that the earliest link reports
FirstInLinkOrder(d, ips, links) ==
    LET k == Min({j \in 1..Len(links) :
                     \E a \in ips : d.ips[a].ip = links[j].address})
    IN CHOOSE a \in ips : d.ips[a].ip = links[k].address

\* C26: the VLAN a reconciled bond or bridge takes from its confirmed
\* addresses is that of the first STICKY one in link order, else of the
\* first DISCOVERED one in link order, whatever the order in which the set
\* of confirmed addresses is iterated.
BestInLinkOrder ==
    [][BondOrBridgeDone
       /\ ConfirmedOn(db', cur'.step.iface, GlobalLinks(cur.data, cur.order[cur.idx])) # {}
       => db'.ifaces[cur'.step.iface].vlan =
             db'.subnets[db'.ips[FirstInLinkOrder(db',
                 BetterClass(db', ConfirmedOn(db', cur'.step.iface,
                                 GlobalLinks(cur.data, cur.order[cur.idx]))),
                 GlobalLinks(cur.data, cur.order[cur.idx]))].subnet].vlan]_vars

\* the interfaces a hint designates: by hardware address for a hint about a
\* remote network, by name among the interfaces of the node for a hint
\* about the node's own interfaces
HintDesignates(d, node, hint) ==
    IF hint.hint \in {"on_remote_network", "routable_to"} /\ hint.related_mac # NoMac
    THEN {i \in IfaceIds(d) :
             /\ d.ifaces[i].mac = hint.related_mac
             /\ \/ d.ifaces[i].type = "physical"
                \/ d.ifaces[i].type = "bridge" /\ d.ifaces[i].name = hint.related_ifname}
    ELSE IF hint.hint \in {"rx_own_beacon_on_other_interface", "same_local_fabric_as"}
    THEN {i \in NodeIfaces(d, node) : d.ifaces[i].name = hint.related_ifname}
    ELSE {}

\* the VLAN of the interface designated by the first hint for ifname,
\* without tags, that designates an interface of the set alive with a VLAN
AdoptedFromHints(d, alive, node, ifname, hints) ==
    LET with_vlan(k) == {i \in HintDesignates(d, node, hints[k]) \cap alive :
                            d.ifaces[i].vlan # Null}
        good == {k \in 1..Len(hints) :
                    /\ hints[k].ifname = ifname
                    /\ hints[k].vid = Null /\ hints[k].related_vid = Null
                    /\ with_vlan(k) # {}}
    IN IF good = {} THEN Null ELSE d.ifaces[Min(with_vlan(Min(good)))].vlan

\* the loop reconciles a physical interface of a snapshot with hints and
\* guesses a VLAN for it
HintsConsulted ==
    /\ pc = "update"
    /\ cur.idx <= Len(cur.order)
    /\ cur.data.networks[cur.order[cur.idx]].kind = "physical"
    /\ cur.data.hints.present
    /\ pc' = "update"
    /\ cur'.step.via # "none"

\* C27: the VLAN taken from the hints is that of the interface designated
\* by a hint for the processed interface without tags: the interface with
\* the related hardware address, or the node's own interface with the
\* related name; a hint that designates no interface with a VLAN gives
\* nothing.
HintResolution ==
    [][HintsConsulted =>
           cur'.step.hint_vlan =
               AdoptedFromHints(db, IfaceIds(db'), cur.node, cur.order[cur.idx],
                                cur.data.hints.hints)]_vars

\* the addresses attached to the interface i that stand for a lease yet to
\* come: DHCP addresses without value and without subnet
Placeholders(d, i) ==
    {a \in IpsOf(d, i) :
        d.ips[a].alloc = "DHCP" /\ d.ips[a].ip = Null /\ d.ips[a].subnet = Null}

\* C28: an interface reconciled with one or more dynamic links has exactly
\* one DHCP address without value and without subnet attached.
SinglePlaceholder ==
    /\ pc = "update"
    /\ cur.step.iface \in IfaceIds(db)
    /\ \E k \in 1..Len(GlobalLinks(cur.data, cur.step.name)) :
          GlobalLinks(cur.data, cur.step.name)[k].mode = "dhcp"
    => Cardinality(Placeholders(db, cur.step.iface)) = 1

\* the DISCOVERED addresses attached to the interface i
DiscoveredOn(d, i) == {a \in IpsOf(d, i) : d.ips[a].alloc = "DISCOVERED"}

\* C29: once the links of an interface are updated, every DISCOVERED
\* address attached to it has the value of a link of this snapshot, so that
\* none that an earlier run attached and that is no longer reported remains.
DiscoveredRebuilt ==
    /\ pc = "update"
    /\ cur.step.iface \in IfaceIds(db)
    => \A a \in DiscoveredOn(db, cur.step.iface) :
          \E k \in 1..Len(GlobalLinks(cur.data, cur.step.name)) :
             GlobalLinks(cur.data, cur.step.name)[k].address = db.ips[a].ip

\* an interface had a DISCOVERED address that this snapshot does not
\* report; it is attached no more, and another DISCOVERED address is
WitnessDiscoveredRebuilt ==
    /\ pc = "update"
    /\ cur.step.iface \in IfaceIds(db) \cap IfaceIds(cur.before)
    /\ DiscoveredOn(db, cur.step.iface) # {}
    /\ \E a \in DiscoveredOn(cur.before, cur.step.iface) :
          \A b \in IpsOf(db, cur.step.iface) : db.ips[b].ip # cur.before.ips[a].ip

\* the loop reconciles a VLAN interface whose lower device is one interface
\* of the node, with a VLAN
VlanIsNext ==
    /\ ChildIsNext
    /\ cur.data.networks[cur.order[cur.idx]].kind = "vlan"
    /\ \E p \in IfaceIds(db) :
          /\ IfaceNamed(db, cur.node, cur.data.networks[cur.order[cur.idx]].parents[1]) = {p}
          /\ db.ifaces[p].vlan # Null

\* the link's subnet is on another VLAN than the interface i
OffVlan(d, i, link) ==
    \E s \in DOMAIN d.subnets :
        /\ d.subnets[s].cidr = CidrOf(link.address, link.netmask)
        /\ d.subnets[s].vlan # d.ifaces[i].vlan

\* what the links of the VLAN interface i came to, from the graph d before
\* to the graph e after: the address of a link off the VLAN of i is not
\* attached to i, and no row with its value is made or changed; the
\* address of any other fixed link is attached to i
LinksSettled(d, e, i, links) ==
    \A k \in 1..Len(links) :
        IF OffVlan(e, i, links[k])
        THEN /\ \A a \in RowsOf(e, links[k].address) :
                   /\ <<i, a>> \notin e.attach
                   /\ a \in DOMAIN d.ips
                   /\ e.ips[a] = d.ips[a]
        ELSE links[k].mode # "dhcp" =>
                 \E a \in RowsOf(e, links[k].address) : <<i, a>> \in e.attach

\* C30: a VLAN interface is reconciled without failure when a link of it is
\* in a subnet on another VLAN: that link gives no attachment and no change
\* of an address row, the other links are attached, and every address with
\* a subnet that is attached to the interface has its subnet on the VLAN of
\* the interface.
MismatchSkipped ==
    [][VlanIsNext =>
           /\ pc' = "update"
           /\ cur'.step.iface \in IfaceIds(db')
           /\ LinksSettled(db, db', cur'.step.iface,
                           GlobalLinks(cur.data, cur.order[cur.idx]))
           /\ \A a \in IpsOf(db', cur'.step.iface) :
                 db'.ips[a].subnet # Null =>
                     db'.subnets[db'.ips[a].subnet].vlan =
                         db'.ifaces[cur'.step.iface].vlan]_vars

\* a VLAN interface reports three links; the second is in a subnet on
\* another VLAN and its address is not attached, the third is attached
WitnessMismatchSkipped ==
    /\ pc = "update"
    /\ cur.step.iface \in IfaceIds(db)
    /\ db.ifaces[cur.step.iface].type = "vlan"
    /\ Len(GlobalLinks(cur.data, cur.step.name)) = 3
    /\ OffVlan(db, cur.step.iface, GlobalLinks(cur.data, cur.step.name)[2])
    /\ \A a \in RowsOf(db, GlobalLinks(cur.data, cur.step.name)[2].address) :
          <<cur.step.iface, a>> \notin db.attach
    /\ \E a \in RowsOf(db, GlobalLinks(cur.data, cur.step.name)[3].address) :
          <<cur.step.iface, a>> \in db.attach

\* the VLAN that is known for the bond or bridge the loop reconciles next,
\* when its links are updated: the VLAN of its links, or else the VLAN of
\* the first parent found
KnownVlanOfNext ==
    IF LinksVlanOfNext # Null THEN LinksVlanOfNext
    ELSE IF get_interfaces_on_node_by_name(
                db, cur.node, cur.data.networks[cur.order[cur.idx]].parents) # <<>>
    THEN db.ifaces[get_interfaces_on_node_by_name(
                db, cur.node, cur.data.networks[cur.order[cur.idx]].parents)[1]].vlan
    ELSE Null

\* the links of the name the loop reconciles next that lie in a subnet
\* known before the step, on another VLAN than vlan
LinksOffVlan(vlan) ==
    {link \in Range(GlobalLinks(cur.data, cur.order[cur.idx])) :
        \E s \in DOMAIN db.subnets :
            /\ db.subnets[s].cidr = CidrOf(link.address, link.netmask)
            /\ db.subnets[s].vlan # vlan}

\* C31: when a bond or a bridge whose VLAN is known is reconciled, a link
\* in a subnet on another VLAN is skipped: no address row with its value is
\* attached to the interface.
ChildMismatchSkipped ==
    [][BondOrBridgeDone /\ KnownVlanOfNext # Null
       => \A link \in LinksOffVlan(KnownVlanOfNext) :
             \A a \in RowsOf(db', link.address) :
                <<cur'.step.iface, a>> \notin db'.attach]_vars

\* the step is the end of a call that failed: the graph is rolled back
RolledBack == pc' = "idle" /\ last'.result # "ok"

\* the gateways the fixed links of the name the loop reconciles next supply
\* for the network cidr
SuppliedGateways(cidr) ==
    IF pc = "update" /\ cur.idx <= Len(cur.order)
    THEN {link.gateway : link \in {l \in Range(GlobalLinks(cur.data, cur.order[cur.idx])) :
                                      /\ l.mode # "dhcp"
                                      /\ l.gateway # Null
                                      /\ CidrOf(l.address, l.netmask) = cidr}}
    ELSE {}

\* C32: a step that is not a rollback leaves the gateway of a subnet that
\* has one as it is, and gives a gateway to a subnet only when a fixed link
\* of the reconciled interface supplies it and it lies in the network of
\* the subnet.
GatewayBackfillOnly ==
    [][~RolledBack =>
          \A s \in DOMAIN db'.subnets :
              LET old == IF s \in DOMAIN db.subnets THEN db.subnets[s].gateway ELSE Null
              IN /\ old # Null => db'.subnets[s].gateway = old
                 /\ (old = Null /\ db'.subnets[s].gateway # Null)
                    => /\ db'.subnets[s].gateway \in SuppliedGateways(db'.subnets[s].cidr)
                       /\ InCidr(db'.subnets[s].gateway, db'.subnets[s].cidr)]_vars

\* a call succeeded that reported, for a subnet that had a gateway, a fixed
\* link with another gateway of its network, and attached its address
WitnessGatewayBackfillOnly ==
    /\ Succeeded
    /\ \E s \in DOMAIN last.before.subnets \cap DOMAIN db.subnets :
          /\ last.before.subnets[s].gateway # Null
          /\ \E x \in FixedLinks :
                /\ CidrOf(x[2].address, x[2].netmask) = db.subnets[s].cidr
                /\ x[2].gateway \notin {Null, last.before.subnets[s].gateway}
                /\ InCidr(x[2].gateway, db.subnets[s].cidr)
                /\ \E i \in IfaceNamed(db, last.node, x[1]) :
                      \E a \in RowsOf(db, x[2].address) : <<i, a>> \in db.attach

\* the reported links with a malformed address
MalformedLinks == {x \in ReportedLinks : x[2].address = Malformed}

\* C33: a call whose snapshot holds a malformed link succeeds, and the
\* well-formed fixed links of the snapshot are attached to their
\* interfaces.
MalformedSkipped ==
    (Returned /\ MalformedLinks # {}) =>
        /\ Succeeded
        /\ \A x \in FixedLinks \ MalformedLinks :
              \A i \in IfaceNamed(db, last.node, x[1]) :
                  \E a \in RowsOf(db, x[2].address) : <<i, a>> \in db.attach

\* <<name, o>>: the snapshot reports under name the MAC address that the
\* physical interface o of the calling node had before the call
Known ==
    {x \in ReportedPhysical \X IfaceIds(last.before) :
        /\ last.before.ifaces[x[2]].type = "physical"
        /\ last.before.ifaces[x[2]].mac = ReportedMac(last.data, x[1])
        /\ last.before.ifaces[x[2]].node = last.node}

\* C34: after a call for node N succeeded with a snapshot that reports the
\* MAC address of a physical interface N had, under whatever name, the
\* record of that interface is still there, with the same MAC address and
\* owned by N.
IdentityPreserved ==
    Succeeded =>
        \A x \in Known :
            /\ x[2] \in IfaceIds(db)
            /\ db.ifaces[x[2]].type = "physical"
            /\ db.ifaces[x[2]].mac = last.before.ifaces[x[2]].mac
            /\ db.ifaces[x[2]].node = last.node

\* C35: between the calls, the interfaces an address row is attached to
\* are owned by one node, whether the row comes from a fixed link or from a
\* lease.
NoAddressAcrossNodes ==
    pc = "idle" =>
        \A a \in DOMAIN db.ips :
            \A i, j \in IfacesOf(db, a) : db.ifaces[i].node = db.ifaces[j].node

\* C36: when a VLAN interface is about to be reconciled, the interface of
\* the node that has the name of its lower device has a VLAN, and no call
\* fails for want of it.
VlanParentHasVlan ==
    /\ (ChildIsNext /\ cur.data.networks[cur.order[cur.idx]].kind = "vlan") =>
           \A p \in IfaceNamed(db, cur.node,
                               cur.data.networks[cur.order[cur.idx]].parents[1]) :
               db.ifaces[p].vlan # Null
    /\ Returned => last.result # "AttributeError"

FabricInUse(d, fabric) ==
    \E v \in DOMAIN d.vlans :
        /\ d.vlans[v].fabric = fabric
        /\ \/ \E i \in IfaceIds(d) : d.ifaces[i].vlan = v
           \/ \E s \in DOMAIN d.subnets : d.subnets[s].vlan = v

\* C38: after a call that succeeded, every fabric the call created has an
\* interface or a subnet on one of its VLANs.
NoOrphanFabric ==
    Succeeded =>
        \A f \in db.fabrics \ last.before.fabrics : FabricInUse(db, f)

\* C39: after a call that succeeded, every physical interface the snapshot
\* reports has a physical interface of the node with its name, and two
\* reported names have two records.
RecordPerReportedPhysical ==
    Succeeded =>
        /\ \A name \in ReportedPhysical :
              \E i \in IfaceNamed(db, last.node, name) : db.ifaces[i].type = "physical"
        /\ Cardinality({i \in NodeIfaces(db, last.node) :
                            /\ db.ifaces[i].type = "physical"
                            /\ db.ifaces[i].name \in ReportedPhysical})
              >= Cardinality(ReportedPhysical)

\* no two subnets have one network, no two VLANs one fabric and one tag
BindingsUnique(d) ==
    /\ \A s, t \in DOMAIN d.subnets :
          d.subnets[s].cidr = d.subnets[t].cidr => s = t
    /\ \A v, w \in DOMAIN d.vlans :
          (d.vlans[v].fabric = d.vlans[w].fabric /\ d.vlans[v].vid = d.vlans[w].vid)
          => v = w

\* the VLANs the interface i may have had while the step updated its
\* links: the one it had before, the one it has after, the one guessed or
\* known for it, and the VLANs of the fabrics the step created
EffectiveVlans(i) ==
    {db'.ifaces[i].vlan, cur'.step.new_vlan}
    \cup (IF i \in IfaceIds(db) THEN {db.ifaces[i].vlan} ELSE {})
    \cup (IF cur.data.networks[cur.order[cur.idx]].kind \in {"bond", "bridge"}
          THEN {KnownVlanOfNext} ELSE {})
    \cup (DOMAIN db'.vlans \ DOMAIN db.vlans)

\* C40: no step changes the network or the VLAN of a subnet that exists,
\* nor the fabric or the tag of a VLAN that exists; a subnet a step creates
\* is on a VLAN of the interface that reports it; and no two subnets have
\* one network, no two VLANs one fabric and one tag.
SubnetBindingStable ==
    [][/\ \A s \in DOMAIN db.subnets \cap DOMAIN db'.subnets :
             /\ db'.subnets[s].cidr = db.subnets[s].cidr
             /\ db'.subnets[s].vlan = db.subnets[s].vlan
       /\ \A v \in DOMAIN db.vlans \cap DOMAIN db'.vlans : db'.vlans[v] = db.vlans[v]
       /\ BindingsUnique(db')
       /\ (pc = "update" /\ pc' = "update" /\ cur'.step.iface \in IfaceIds(db'))
          => \A s \in DOMAIN db'.subnets \ DOMAIN db.subnets :
                /\ db'.subnets[s].vlan \in DOMAIN db'.vlans
                /\ db'.subnets[s].vlan \in EffectiveVlans(cur'.step.iface) \ {Null}]_vars

\* after a call that succeeded, an interface has the address of a reported
\* link whose subnet, which was there before the call, is on another VLAN
\* than the interface
WitnessSubnetBindingStable ==
    /\ Succeeded
    /\ \E x \in FixedLinks :
          \E i \in IfaceNamed(db, last.node, x[1]) :
             \E s \in DOMAIN last.before.subnets \cap DOMAIN db.subnets :
                /\ db.subnets[s].cidr = CidrOf(x[2].address, x[2].netmask)
                /\ db.subnets[s].vlan # db.ifaces[i].vlan
                /\ db.subnets[s].vlan = last.before.subnets[s].vlan
                /\ \E a \in RowsOf(db, x[2].address) : <<i, a>> \in db.attach

====
